---- MODULE Spec2Model ----
(***************************************************************************)
(* Verification model of the solar-system viewer's presentation logic:    *)
(*   - the Three.js Controls class in its repository variants              *)
(*     (js/controls.js, part_008: joystick scaling; part_006, part_007:    *)
(*     joystick scaling plus trigger VR/AR toggle; part_005, part_004:     *)
(*     trigger scaling),                                                   *)
(*   - the A-Frame ar-scale-adjuster component (js/components.js) and its  *)
(*     detectARMode policy,                                                *)
(*   - the A-Frame vr-zoom component (js/components.js, js/main.js,        *)
(*     part_003, part_000, part_001),                                      *)
(*   - the Three.js simulation: CelestialBody and SolarSystem.render,      *)
(*   - the A-Frame debug system of part_000: debug-manager and vr-debug.   *)
(*                                                                         *)
(* Numbers.  Scales are fixed-point integers in units of 1/SU (SU = 1.0),  *)
(* positions and joystick/button values in hundredths.  A product is       *)
(* rounded to the nearest unit, which stands for the rounding of the       *)
(* IEEE-754 double the code computes with.  A JavaScript value that may be *)
(* a number, NaN or undefined is a record [t, v].                          *)
(***************************************************************************)
EXTENDS Integers, Sequences, FiniteSets, TLC

VARIABLES
    build,            \* which Controls variant is running
    scale,            \* solarSystem.scale   <<x, y, z>>
    position,         \* solarSystem.position <<x, y, z>>
    originalScale,    \* Controls.originalScale
    originalPosition, \* Controls.originalPosition
    presenting,       \* renderer.xr.isPresenting / getSession() !== null
    isARMode,         \* Controls.isARMode (part_006, part_007)
    lastTriggerState, \* Controls.lastTriggerState, by controller index
    hasEventListeners,\* controllerN.userData.hasEventListeners (part_005/004)
    frames,           \* number of update() calls so far
    lastOp,           \* history: the operation that produced this state
    frameQuiet,       \* history: every selected joystick Y of the last frame was inside the deadzone
    frameDeflected,   \* history: some selected joystick Y of the last frame was a number other than 0
    frameInvalid,     \* history: the last frame had a gamepad, and every joystick Y axis of every gamepad was NaN or undefined
    frameToggles,     \* history: number of toggleXRMode calls in the last frame
    frameTriggers,    \* history (part_006): per controller index whether the trigger was down when last read; the last frame's new presses
    frameThrew,       \* history: the last frame ended in an uncaught error
    preStart          \* history: root state immediately before the latest onVRSessionStart

\* A-Frame page: the ar-scale-adjuster component and its host
VARIABLES
    env,              \* navigator.userAgent, location.search, DOM and navigator probes
    data,             \* the component's schema data
    elScale,          \* the solar-system element's scale attribute <<x, y, z>>
    elPosition,       \* the solar-system element's position attribute
    afCurrentScale,   \* this.currentScale
    afOriginalPosition, \* this.originalPosition
    checkDelayTimer,  \* this.checkDelayTimer: "null" or "set"
    timerPending,     \* the timer checkDelayTimer refers to has not fired and is not cleared
    inXR,             \* the scene is in its XR state (between enter-vr and exit-vr)
    livePosition,     \* getAttribute('position') returns the element's live vector
    initPosition,     \* history: the position attribute the element had when init ran
    bodyClasses,      \* document.body.classList
    xrPresenting,     \* sceneEl.renderer.xr.isPresenting
    xrSession,        \* sceneEl.renderer.xr.getSession()
    enters,           \* number of enter-vr events so far
    afLastOp,         \* history: the handler that produced this state
    preEnter          \* history: element state immediately before the latest enter-vr

\* detectARMode applied to one session
VARIABLES
    detSession,       \* the session passed to detectARMode
    detResult         \* what it returned, and the method that decided

\* A-Frame vr-zoom component (js/components.js; js/main.js, part_003)
VARIABLES
    zoomBuild,        \* which vr-zoom variant is running
    isVR,             \* vr-zoom's this.isVR
    sceneScale,       \* scene.object3D.scale (the target of main.js and part_003)
    zoomListensFirst, \* vr-zoom registered its exit-vr listener before ar-scale-adjuster did
    zoomEvents,       \* number of controller events and gamepad polls so far
    zoomLastOp,       \* history: the listener that produced this state
    zoomY,            \* history: the Y value the last thumbstickmoved / axismove carried
    zoomPre           \* history: the scale the last controller event or poll found

\* Three.js simulation: SolarSystem.render and its celestial bodies (js/main.js)
VARIABLES
    sun,              \* SolarSystem.sun
    planets,          \* SolarSystem.planets
    pc,               \* position in render(): index into RenderOrder of the next step
    next,             \* index of the planet planets.forEach visits next
    draws,            \* history: number of renderer.render calls so far
    elapsed,          \* history: sum of the deltaTimes of the frames so far (ms)
    firstDelta        \* history: deltaTime of the first frame (ms), 0 before it

\* A-Frame debug system: debug-manager and vr-debug (part_000), and the debug
\* console of the part_001 vr-zoom
VARIABLES
    managers,         \* the debug-manager component instances, by number
    VR_DEBUG_MANAGER, \* window.VR_DEBUG_MANAGER: an instance number, 0 when unset or null
    desktopDebug,     \* the #desktop-debug element of the document
    sceneVR,          \* the scene of the debug system is between enter-vr and exit-vr
    debugListeners,   \* the instances whose enter-vr / exit-vr listeners the scene holds, in registration order
    debugEvents,      \* number of scene events and gamepad polls delivered to the debug system
    vrDebug,          \* the vr-debug component: its registerWithManager timer
    zoomDebug         \* the part_001 vr-zoom: its debugMessages buffer and createDebugDisplay timer

afVars == <<env, data, elScale, elPosition, afCurrentScale, afOriginalPosition,
            checkDelayTimer, timerPending, inXR, livePosition, initPosition, bodyClasses,
            xrPresenting, xrSession, enters, afLastOp, preEnter>>

detVars == <<detSession, detResult>>

ctlVars == <<build, scale, position, originalScale, originalPosition, presenting,
             isARMode, lastTriggerState, hasEventListeners, frames,
             lastOp, frameQuiet, frameDeflected, frameInvalid, frameToggles, frameTriggers, frameThrew, preStart>>

zoomVars == <<zoomBuild, isVR, sceneScale, zoomListensFirst, zoomEvents, zoomLastOp, zoomY, zoomPre>>

simVars == <<sun, planets, pc, next, draws, elapsed, firstDelta>>

dbgVars == <<managers, VR_DEBUG_MANAGER, desktopDebug, sceneVR, debugListeners, debugEvents,
             vrDebug, zoomDebug>>

vars == <<ctlVars, afVars, detVars, zoomVars, simVars, dbgVars>>

----------------------------------------------------------------------------
(* Bounds *)

MaxSources == 2
MaxFrames == 2
MaxEnters == 3
MaxZoomEvents == 2
MaxPlanets == 2
MaxManagers == 2
MaxDebugEvents == 5

----------------------------------------------------------------------------
(* Fixed-point helpers *)

SU == 100 * 100

AbsInt(n) == IF n < 0 THEN -n ELSE n

\* n / d rounded to the nearest integer
RoundDiv(n, d) == (n + d \div 2) \div d

Vec(x, y, z) == <<x, y, z>>

\* Vector3.setScalar / Vector3.set(s, s, s)
setScalar(s) == <<s, s, s>>

\* Vector3.multiplyScalar
multiplyScalar(v, num, den) ==
    <<RoundDiv(v[1] * num, den), RoundDiv(v[2] * num, den), RoundDiv(v[3] * num, den)>>

\* new THREE.Vector3()
ZeroVector == <<0, 0, 0>>

\* the integer that stands for NaN in a scale component (no product or
\* clamp of the program yields a negative scale)
NaNScalar == 0 - 1

\* new THREE.Object3D(): scale (1, 1, 1), position (0, 0, 0)
DefaultScale == setScalar(SU)

----------------------------------------------------------------------------
(* JavaScript values: number | NaN | undefined *)

Num(n) == [t |-> "num", v |-> n]
NaN == [t |-> "nan", v |-> 0]
Undefined == [t |-> "undefined", v |-> 0]

\* truthiness of a number-or-undefined value (0, NaN and undefined are falsy)
Truthy(a) == a.t = "num" /\ a.v # 0

\* a || b
Or(a, b) == IF Truthy(a) THEN a ELSE b

\* Math.abs(a) > thr   (false for NaN and undefined)
AbsGreater(a, thr) == a.t = "num" /\ AbsInt(a.v) > thr

\* axes[k] of a JavaScript array (index from 0; undefined past the end)
At(axes, k) == IF k < Len(axes) THEN axes[k + 1] ELSE Undefined

----------------------------------------------------------------------------
(* Controls: program constants *)

\* const deadzone = 0.2 (hundredths)
deadzone == 20

\* the axis threshold of part_008's axis search, 0.1 (hundredths)
axisThreshold == 10

\* const scaleRate = 0.01 (hundredths)
scaleRate == 1

\* const minScale = 0.01
minScale == SU \div 100

\* const maxScale = 2.0
maxScale == 2 * SU

\* triggerValue > 0.9 (hundredths), part_006
triggerThreshold == 90

JoystickBuilds == {"controls", "part_008"}
ToggleBuilds == {"part_006", "part_007"}
TriggerBuilds == {"part_005", "part_004"}

\* builds that register onVRSessionStart / onVRSessionEnd (part_004 does not)
SessionBuilds == JoystickBuilds \cup ToggleBuilds \cup {"part_005"}

\* the presentation profile updateSolarSystemForMode applies
ProfileScale(b, ar) ==
    IF b = "part_006"
    THEN (IF ar THEN setScalar(SU \div 50) ELSE setScalar(SU \div 5))
    ELSE (IF ar THEN setScalar(SU \div 20) ELSE setScalar(SU \div 10))

ProfilePosition(b, ar) ==
    IF b = "part_006"
    THEN (IF ar THEN Vec(0, -30, -50) ELSE Vec(0, 0, 0))
    ELSE (IF ar THEN Vec(0, -20, -80) ELSE Vec(0, -50, -200))

\* the scale and position onVRSessionStart sets in the builds without a mode
SessionStartScale(b) == IF b = "part_005" THEN setScalar(SU \div 5) ELSE setScalar(SU \div 10)
SessionStartPosition == Vec(0, -50, -200)

----------------------------------------------------------------------------
(* Controls: the input-source snapshot of a frame *)

Button(value, pressed) == [value |-> value, pressed |-> pressed]
Full == <<Button(100, TRUE)>>
Half == <<Button(60, TRUE)>>
Released == <<Button(0, FALSE)>>
NoButtons == << >>

Source(hand, axes, buttons) ==
    [gamepad |-> TRUE, hand |-> hand, axes |-> axes, buttons |-> buttons]
NoGamepad == [gamepad |-> FALSE, hand |-> "none", axes |-> << >>, buttons |-> << >>]

JoystickSources ==
    { Source("right", <<Num(0), Num(-100)>>, NoButtons),
      Source("left", <<Num(0), Num(100)>>, NoButtons),
      Source("none", <<Num(0), Num(15)>>, NoButtons),
      Source("left", <<Num(0), Num(0), Num(0), Num(-10000)>>, NoButtons),
      Source("right", <<Num(0), Num(10000)>>, NoButtons),
      Source("right", <<Num(0), NaN>>, NoButtons),
      Source("right", <<Num(0), Num(15), Num(0), Num(100)>>, NoButtons),
      Source("left", <<Num(0)>>, NoButtons),
      NoGamepad }

ToggleSources ==
    { Source("left", << >>, Full),
      Source("right", <<Num(0), Num(0)>>, Released),
      Source("right", <<Num(0), Num(-100)>>, Full),
      Source("left", <<Num(0), Num(100)>>, Released),
      Source("right", <<Num(0), Num(15)>>, Half),
      Source("none", <<Num(0), Num(0), Num(0), Num(-10000)>>, NoButtons),
      Source("right", <<Num(0), NaN>>, Released),
      NoGamepad }

SourcesOf(b) ==
    IF b \in JoystickBuilds THEN JoystickSources
    ELSE IF b \in ToggleBuilds THEN ToggleSources
    ELSE {NoGamepad}

\* session.inputSources: up to MaxSources sources
SeqsUpTo(S, n) == UNION { [1..k -> S] : k \in 0..n }
InputSources(b) == SeqsUpTo(SourcesOf(b), MaxSources)

----------------------------------------------------------------------------
(* Controls.processVRInput *)

\* the joystick Y value a build selects for input source number i (from 0);
\* part_007 fails before it selects one (see ProcessSource)
SelectY(b, src, i) ==
    LET axes == src.axes IN
    CASE b = "controls" ->
           IF src.hand = "right" THEN Or(At(axes, 1), Num(0))
           ELSE IF src.hand = "left" THEN Or(At(axes, 1), Or(At(axes, 3), Num(0)))
           ELSE Or(At(axes, 1), Num(0))
      [] b = "part_008" ->
           IF src.hand = "right"
           THEN IF Len(axes) > 3 /\ AbsGreater(At(axes, 3), axisThreshold) THEN At(axes, 3)
                ELSE IF AbsGreater(At(axes, 1), axisThreshold) THEN At(axes, 1)
                ELSE IF Len(axes) > 5 /\ AbsGreater(At(axes, 5), axisThreshold) THEN At(axes, 5)
                ELSE Num(0)
           ELSE IF src.hand = "left"
           THEN IF AbsGreater(At(axes, 1), axisThreshold) THEN At(axes, 1)
                ELSE IF Len(axes) > 3 /\ AbsGreater(At(axes, 3), axisThreshold) THEN At(axes, 3)
                ELSE Num(0)
           ELSE Num(0)
      [] OTHER ->
           IF src.hand = "left" \/ i = 0 THEN At(axes, 1)
           ELSE IF src.hand = "right" \/ i = 1
           THEN (IF Len(axes) > 3 THEN At(axes, 3) ELSE At(axes, 1))
           ELSE Num(0)

\* faulty variant: the deadzone test written !(Math.abs(joystickY) <= deadzone)
OutsideDeadzoneNegated(y) == ~(y.t = "num" /\ AbsInt(y.v) <= deadzone)

\* faulty variant: the deadzone test with the 0.1 threshold of the axis search
OutsideDeadzoneTenth(y) == AbsGreater(y, axisThreshold)

\* Math.abs(joystickY) > deadzone
OutsideDeadzone(y) == AbsGreater(y, deadzone)

\* currentScale * (1 + (-joystickY * scaleRate)), y in hundredths
NewScale(currentScale, y) == RoundDiv(currentScale * (100 * 100 - y * scaleRate), 100 * 100)

\* currentScale * (1 + scaleChange) for a JavaScript joystickY: NaN when
\* joystickY or currentScale is not a number
NewScaleOf(currentScale, y) ==
    IF y.t # "num" \/ currentScale = NaNScalar THEN NaNScalar
    ELSE NewScale(currentScale, y.v)

\* Math.max(minScale, Math.min(maxScale, newScale)); NaN stays NaN
Clamp(newScale) ==
    IF newScale = NaNScalar THEN NaNScalar
    ELSE LET lo == IF newScale < maxScale THEN newScale ELSE maxScale
         IN  IF minScale > lo THEN minScale ELSE lo

\* faulty variant: the joystick block writing scale.x only
ApplyJoystickXOnly(st, y) ==
    IF OutsideDeadzone(y)
    THEN [st EXCEPT !.scale[1] = Clamp(NewScaleOf(st.scale[1], y))]
    ELSE st

\* the joystick block: scale the root when the stick is outside the deadzone
ApplyJoystick(st, y) ==
    IF OutsideDeadzone(y)
    THEN [st EXCEPT !.scale = setScalar(Clamp(NewScaleOf(st.scale[1], y)))]
    ELSE st

\* faulty variant: toggleXRMode taking a new snapshot of the root before it applies the profile
ToggleXRModeResave(b, st) ==
    [st EXCEPT !.isARMode = ~st.isARMode,
               !.originalScale = st.scale,
               !.originalPosition = st.position,
               !.scale = ProfileScale(b, ~st.isARMode),
               !.position = ProfilePosition(b, ~st.isARMode),
               !.toggles = st.toggles + 1]

\* toggleXRMode with updateSolarSystemForMode
ToggleXRMode(b, st) ==
    [st EXCEPT !.isARMode = ~st.isARMode,
               !.scale = ProfileScale(b, ~st.isARMode),
               !.position = ProfilePosition(b, ~st.isARMode),
               !.toggles = st.toggles + 1]

\* whether buttons[0] counts as a pressed trigger
TriggerPressed(b, buttons) ==
    IF b = "part_006" THEN buttons[1].value > triggerThreshold ELSE buttons[1].pressed

\* faulty variant: the trigger block toggling on every frame the trigger is down
ApplyTriggerWhileHeld(b, st, src, i) ==
    IF Len(src.buttons) > 0
    THEN LET pressed == TriggerPressed(b, src.buttons)
             t == IF pressed THEN ToggleXRMode(b, st) ELSE st
         IN  [t EXCEPT !.lastTriggerState[i] = pressed]
    ELSE st

\* the trigger block of part_006 / part_007 for controller index i
ApplyTrigger(b, st, src, i) ==
    IF Len(src.buttons) > 0
    THEN LET pressed == TriggerPressed(b, src.buttons)
             t == IF pressed /\ ~st.lastTriggerState[i] THEN ToggleXRMode(b, st) ELSE st
         IN  [t EXCEPT !.lastTriggerState[i] = pressed]
    ELSE st

\* the body of the loop over the input sources
ProcessSource(b, st, src, i) ==
    IF ~src.gamepad THEN st
    ELSE IF b \in JoystickBuilds
    THEN (IF Len(src.axes) >= 2 THEN ApplyJoystick(st, SelectY(b, src, i)) ELSE st)
    ELSE LET t == ApplyTrigger(b, st, src, i) IN
         IF Len(src.axes) >= 2
         THEN (IF b = "part_007"
               THEN [t EXCEPT !.threw = TRUE]  \* ReferenceError: handedness is not defined
               ELSE ApplyJoystick(t, SelectY(b, src, i)))
         ELSE t

RECURSIVE ProcessSources(_, _, _, _)
ProcessSources(b, st, srcs, i) ==
    IF i >= Len(srcs) \/ st.threw THEN st
    ELSE ProcessSources(b, ProcessSource(b, st, srcs[i + 1], i), srcs, i + 1)

\* history only: every source's selected joystick Y is a number of magnitude
\* below the deadzone
AllInsideDeadzone(b, srcs) ==
    \A k \in 1..Len(srcs) :
        (srcs[k].gamepad /\ Len(srcs[k].axes) >= 2) =>
            LET y == SelectY(b, srcs[k], k - 1) IN y.t = "num" /\ AbsInt(y.v) < deadzone

\* history only: some source's selected joystick Y is a number other than 0
SomeDeflected(b, srcs) ==
    \E k \in 1..Len(srcs) :
        /\ srcs[k].gamepad /\ Len(srcs[k].axes) >= 2
        /\ LET y == SelectY(b, srcs[k], k - 1) IN y.t = "num" /\ y.v # 0

\* history only: the frame has a gamepad, and the joystick Y axes (axes[1],
\* axes[3], axes[5]) of every gamepad are NaN or undefined
AllInvalid(srcs) ==
    /\ \E k \in 1..Len(srcs) : srcs[k].gamepad
    /\ \A k \in 1..Len(srcs) :
           srcs[k].gamepad =>
               \A a \in {1, 3, 5} : At(srcs[k].axes, a).t \in {"nan", "undefined"}

\* history only: no frame has read a trigger yet
NoTriggers == [held |-> [i \in 0..(MaxSources - 1) |-> FALSE], presses |-> 0]

\* history only: what the input sources of a frame present as buttons[0] at
\* controller index i
TriggerInput(b, srcs, i) ==
    IF i < Len(srcs) /\ srcs[i + 1].gamepad /\ Len(srcs[i + 1].buttons) > 0
    THEN (IF TriggerPressed(b, srcs[i + 1].buttons) THEN "pressed" ELSE "released")
    ELSE "none"

\* history only: from the triggers a frame of part_006 is presented with,
\* per index whether the trigger is down as last read, and the number of
\* indices whose trigger went from not pressed to pressed
TriggersRead(b, isPresenting, srcs, h) ==
    IF isPresenting /\ b = "part_006"
    THEN [held |-> [i \in DOMAIN h.held |->
                      IF TriggerInput(b, srcs, i) = "none" THEN h.held[i]
                      ELSE TriggerInput(b, srcs, i) = "pressed"],
          presses |-> Cardinality({ i \in DOMAIN h.held :
                                      TriggerInput(b, srcs, i) = "pressed" /\ ~h.held[i] })]
    ELSE [h EXCEPT !.presses = 0]

----------------------------------------------------------------------------
(* The page environment and the XR session, as detectARMode reads them *)

NoSearch == << >>
Param(k, v) == [k |-> k, v |-> v]

\* location.search, as its list of key=value parameters
Searches ==
    { NoSearch, <<Param("ar", "true")>>, <<Param("passthrough", "true")>>,
      <<Param("bar", "true")>>, <<Param("ar", "false")>>,
      <<Param("debug", "true"), Param("ar", "true")>> }

UserAgents == {"Mozilla Windows", "Mozilla Quest 3", "Mozilla OculusBrowser"}

Envs ==
    [userAgent : UserAgents, search : Searches,
     arModeElement : BOOLEAN, hasGetEnvironmentBlendMode : BOOLEAN]

\* navigator.userAgent.includes(word)
UserAgentIncludes(ua, word) ==
    CASE word = "Quest" -> ua = "Mozilla Quest 3"
      [] word = "OculusBrowser" -> ua = "Mozilla OculusBrowser"
      [] OTHER -> FALSE

\* keys of the modelled searches that end with the given key
KeysEndingWith(key) == IF key = "ar" THEN {"ar", "bar"} ELSE {key}

\* window.location.search.includes(key + '=' + value)
SearchIncludes(search, key, value) ==
    \E k \in 1..Len(search) : search[k].k \in KeysEndingWith(key) /\ search[k].v = value

\* new URLSearchParams(search).get(key): the first value of that key, or "null"
SearchGet(search, key) ==
    LET hits == {k \in 1..Len(search) : search[k].k = key} IN
    IF hits = {} THEN "null"
    ELSE search[CHOOSE k \in hits : \A j \in hits : k <= j].v

SessionModes == {"undefined", "immersive-vr", "immersive-ar"}
BlendModes == {"undefined", "opaque", "additive", "alpha-blend", "screen"}
Features == {"local-floor", "hit-test", "plane-detection", "anchors", "camera-access"}
FeatureLists == {[defined |-> FALSE, list |-> {}]}
                    \cup {[defined |-> TRUE, list |-> f] : f \in SUBSET Features}

Sessions == [mode : SessionModes, environmentBlendMode : BlendModes,
             enabledFeatures : FeatureLists]

\* faulty variant: the blend-mode list without 'alpha-blend'
arBlendModesNoAlpha == {"additive", "screen"}

\* faulty variant: the feature list with 'local-floor' added
arFeaturesWithLocalFloor ==
    {"hit-test", "plane-detection", "anchors", "camera-access", "local-floor"}

arBlendModes == {"additive", "alpha-blend", "screen"}
arFeatures == {"hit-test", "plane-detection", "anchors", "camera-access"}

\* ar-scale-adjuster.isMetaQuestPassthrough
isMetaQuestPassthrough(e) ==
    LET isQuest == UserAgentIncludes(e.userAgent, "Quest")
                       \/ UserAgentIncludes(e.userAgent, "OculusBrowser")
    IN  IF ~isQuest THEN FALSE
        ELSE \/ SearchIncludes(e.search, "passthrough", "true")
             \/ SearchIncludes(e.search, "ar", "true")
             \/ e.arModeElement
             \/ e.hasGetEnvironmentBlendMode

Verdict(isAR, method) == [isAR |-> isAR, method |-> method]

\* ar-scale-adjuster.detectARMode: the result and the number of the method
\* that returned it (0: the final return false)
detectARMode(session, e) ==
    IF session.mode = "immersive-ar" THEN Verdict(TRUE, 1)
    ELSE IF session.environmentBlendMode # "undefined"
            /\ session.environmentBlendMode \in arBlendModes THEN Verdict(TRUE, 2)
    ELSE IF session.enabledFeatures.defined
            /\ (\E f \in arFeatures : f \in session.enabledFeatures.list) THEN Verdict(TRUE, 3)
    ELSE IF isMetaQuestPassthrough(e) THEN Verdict(TRUE, 4)
    ELSE Verdict(FALSE, 0)

\* Controls.processVRInput over the session's input sources (session non-null)
processVRInput(b, st, srcs) == ProcessSources(b, st, srcs, 0)

----------------------------------------------------------------------------
(* Controls: session handlers *)

\* faulty variant: onVRSessionStart taking the snapshot after it has applied the VR view
onVRSessionStartSnapshotLate(b, st) ==
    LET applied == [st EXCEPT
            !.scale = IF b \in ToggleBuilds THEN ProfileScale(b, st.isARMode)
                      ELSE SessionStartScale(b),
            !.position = IF b \in ToggleBuilds THEN ProfilePosition(b, st.isARMode)
                         ELSE SessionStartPosition]
    IN  [applied EXCEPT !.originalScale = applied.scale,
                        !.originalPosition = applied.position]

\* Controls.onVRSessionStart: snapshot the root, then apply the VR view
onVRSessionStart(b, st) ==
    [st EXCEPT !.originalScale = st.scale,
               !.originalPosition = st.position,
               !.scale = IF b \in ToggleBuilds THEN ProfileScale(b, st.isARMode)
                         ELSE SessionStartScale(b),
               !.position = IF b \in ToggleBuilds THEN ProfilePosition(b, st.isARMode)
                            ELSE SessionStartPosition]

\* Controls.onVRSessionEnd: restore the snapshot
onVRSessionEnd(b, st) ==
    [st EXCEPT !.scale = st.originalScale, !.position = st.originalPosition]

\* the fields of a Controls object the handlers read and write
This ==
    [scale |-> scale, position |-> position, isARMode |-> isARMode,
     lastTriggerState |-> lastTriggerState, originalScale |-> originalScale,
     originalPosition |-> originalPosition, toggles |-> 0, threw |-> FALSE]

Store(st) ==
    /\ scale' = st.scale
    /\ position' = st.position
    /\ isARMode' = st.isARMode
    /\ lastTriggerState' = st.lastTriggerState
    /\ originalScale' = st.originalScale
    /\ originalPosition' = st.originalPosition
    /\ frameToggles' = st.toggles
    /\ frameThrew' = st.threw

----------------------------------------------------------------------------
(* Controls: actions *)

CtlInit(builds) ==
    /\ build \in builds
    /\ scale = DefaultScale
    /\ position = ZeroVector
    /\ originalScale = ZeroVector
    /\ originalPosition = ZeroVector
    /\ presenting = FALSE
    /\ isARMode = FALSE
    /\ lastTriggerState = [i \in 0..(MaxSources - 1) |-> FALSE]
    /\ hasEventListeners = <<FALSE, FALSE>>
    /\ frames = 0
    /\ lastOp = "init"
    /\ frameQuiet = TRUE
    /\ frameDeflected = FALSE
    /\ frameInvalid = FALSE
    /\ frameToggles = 0
    /\ frameTriggers = NoTriggers
    /\ frameThrew = FALSE
    /\ preStart = [seen |-> FALSE, scale |-> ZeroVector, position |-> ZeroVector]

\* the renderer dispatches 'sessionstart'
SessionStart ==
    /\ presenting' = TRUE
    /\ Store(IF build \in SessionBuilds THEN onVRSessionStart(build, This) ELSE This)
    /\ preStart' = IF build \in SessionBuilds
                   THEN [seen |-> TRUE, scale |-> scale, position |-> position]
                   ELSE preStart
    /\ lastOp' = "sessionstart"
    /\ UNCHANGED <<build, hasEventListeners, frames, frameQuiet, frameDeflected, frameInvalid, frameTriggers, afVars, detVars, zoomVars, simVars, dbgVars>>

\* the renderer dispatches 'sessionend'
SessionEnd ==
    /\ presenting' = FALSE
    /\ Store(IF build \in SessionBuilds THEN onVRSessionEnd(build, This) ELSE This)
    /\ lastOp' = "sessionend"
    /\ UNCHANGED <<build, hasEventListeners, frames, frameQuiet, frameDeflected, frameInvalid, frameTriggers, preStart,
                   afVars, detVars, zoomVars, simVars, dbgVars>>

\* Controls.update() of one rendered frame, with the frame's input sources
\* one of inputs: what it does to the Controls object
ControlsUpdate(inputs) ==
    /\ frames < MaxFrames
    /\ \E srcs \in inputs :
         /\ Store(IF presenting /\ build \notin TriggerBuilds
                  THEN processVRInput(build, This, srcs) ELSE This)
         /\ frameQuiet' = AllInsideDeadzone(build, srcs)
         /\ frameDeflected' = SomeDeflected(build, srcs)
         /\ frameInvalid' = AllInvalid(srcs)
         /\ frameTriggers' = TriggersRead(build, presenting, srcs, frameTriggers)
    /\ hasEventListeners' = IF presenting /\ build \in TriggerBuilds
                            THEN <<TRUE, TRUE>> ELSE hasEventListeners
    /\ frames' = IF build \in TriggerBuilds THEN frames ELSE frames + 1
    /\ lastOp' = "frame"
    /\ UNCHANGED <<build, presenting, preStart>>

\* Controls.update() called on its own
Update == ControlsUpdate(InputSources(build)) /\ UNCHANGED <<afVars, detVars, zoomVars, simVars, dbgVars>>

\* the selectstart listener of controller c (part_005, part_004):
\* controller 1 enlarges by 1.01, controller 2 shrinks by 0.99
selectstart(c, s) ==
    IF c = 1 THEN multiplyScalar(s, 101, 100) ELSE multiplyScalar(s, 99, 100)

\* the model's bound on the trigger builds: presses are followed from the
\* scales inside [minScale, maxScale], the range of the joystick Controls
Explored(s) == minScale <= s[1] /\ s[1] <= maxScale

\* a trigger press on controller c during a session, once processVRInput has
\* registered the listener
SelectStart(c) ==
    /\ presenting
    /\ hasEventListeners[c]
    /\ Explored(scale)
    /\ scale' = selectstart(c, scale)
    /\ lastOp' = "selectstart"
    /\ UNCHANGED <<build, position, originalScale, originalPosition, presenting, isARMode,
                   lastTriggerState, hasEventListeners, frames, frameQuiet, frameDeflected, frameInvalid, frameToggles, frameTriggers,
                   frameThrew, preStart, afVars, detVars, zoomVars, simVars, dbgVars>>

----------------------------------------------------------------------------
(* A-Frame ar-scale-adjuster (js/components.js) *)

\* schema data: scales in units of 1/SU, Y offsets in hundredths; the first
\* is the schema's defaults
Configs ==
    { [arScale |-> SU \div 2, vrScale |-> SU, arYOffset |-> 100, vrYOffset |-> 0],
      [arScale |-> SU \div 5, vrScale |-> 2 * SU, arYOffset |-> 50, vrYOffset |-> 10] }

\* the position attribute the element has when the component initialises
ElementPositions == { Vec(0, 0, 0), Vec(0, 150, -300) }

NoSession == [mode |-> "none", environmentBlendMode |-> "undefined",
              enabledFeatures |-> [defined |-> FALSE, list |-> {}]]

\* the sessions the page is entered with
PageSessions ==
    { [mode |-> "immersive-vr", environmentBlendMode |-> "opaque",
       enabledFeatures |-> [defined |-> TRUE, list |-> {"local-floor"}]],
      [mode |-> "immersive-ar", environmentBlendMode |-> "alpha-blend",
       enabledFeatures |-> [defined |-> TRUE, list |-> {"local-floor", "hit-test"}]],
      [mode |-> "undefined", environmentBlendMode |-> "additive",
       enabledFeatures |-> [defined |-> FALSE, list |-> {}]] }

PageEnvs ==
    { e \in Envs : /\ ~e.arModeElement
                  /\ ~e.hasGetEnvironmentBlendMode
                  /\ e.userAgent # "Mozilla OculusBrowser"
                  /\ e.search \in {NoSearch, <<Param("ar", "true")>>, <<Param("bar", "true")>>} }

\* the fields of the component and of its element the handlers read and write
Adjuster ==
    [elScale |-> elScale, elPosition |-> elPosition, currentScale |-> afCurrentScale,
     originalPosition |-> afOriginalPosition, checkDelayTimer |-> checkDelayTimer,
     timerPending |-> timerPending, bodyClasses |-> bodyClasses]

\* ar-scale-adjuster.applyTransform; the element's position attribute is the
\* object originalPosition refers to when getAttribute returned the live vector
applyTransform(a, live, s, yOffset) ==
    LET newPosition == Vec(a.originalPosition[1], a.originalPosition[2] + yOffset,
                           a.originalPosition[3])
    IN  [a EXCEPT !.elScale = setScalar(s),
                  !.elPosition = newPosition,
                  !.originalPosition = IF live THEN newPosition ELSE a.originalPosition]

\* ar-scale-adjuster.checkURLParameters
checkURLParameters(a, live, d, e) ==
    IF SearchGet(e.search, "ar") = "true" \/ SearchGet(e.search, "passthrough") = "true"
    THEN LET t == applyTransform([a EXCEPT !.currentScale = d.arScale], live,
                                 d.arScale, d.arYOffset)
         IN  [t EXCEPT !.bodyClasses = t.bodyClasses \cup {"ar-mode", "url-forced-ar"}]
    ELSE a

\* ar-scale-adjuster.init on an element at position p
init(live, d, e, p) ==
    LET a0 == [elScale |-> DefaultScale, elPosition |-> p, currentScale |-> d.vrScale,
               originalPosition |-> p, checkDelayTimer |-> "null",
               timerPending |-> FALSE, bodyClasses |-> {}]
    IN  checkURLParameters(applyTransform(a0, live, d.vrScale, d.vrYOffset), live, d, e)

\* ar-scale-adjuster.onEnterXR: schedule checkXRMode in 500 ms
onEnterXR(a) == [a EXCEPT !.checkDelayTimer = "set", !.timerPending = TRUE]

\* ar-scale-adjuster.checkXRMode, run by the timer
checkXRMode(a, live, d, e, isPresenting, session) ==
    LET fired == [a EXCEPT !.timerPending = FALSE] IN
    IF isPresenting /\ session.mode # "none"
    THEN IF detectARMode(session, e).isAR
         THEN applyTransform(
                  [fired EXCEPT !.currentScale = d.arScale,
                                !.bodyClasses = (fired.bodyClasses \cup {"ar-mode"}) \ {"vr-mode"}],
                  live, d.arScale, d.arYOffset)
         ELSE applyTransform(
                  [fired EXCEPT !.currentScale = d.vrScale,
                                !.bodyClasses = (fired.bodyClasses \cup {"vr-mode"}) \ {"ar-mode"}],
                  live, d.vrScale, d.vrYOffset)
    ELSE applyTransform(fired, live, d.vrScale, d.vrYOffset)

\* faulty variant: exit-vr leaves the delayed check scheduled
onExitXRKeepsTimer(a, live, d) ==
    LET t == applyTransform([a EXCEPT !.currentScale = d.vrScale], live,
                            d.vrScale, d.vrYOffset)
    IN  [t EXCEPT !.bodyClasses = t.bodyClasses \ {"ar-mode", "vr-mode", "url-forced-ar"}]

\* ar-scale-adjuster.onExitXR
onExitXR(a, live, d) ==
    LET cleared == IF a.checkDelayTimer # "null"
                   THEN [a EXCEPT !.checkDelayTimer = "null", !.timerPending = FALSE]
                   ELSE a
        t == applyTransform([cleared EXCEPT !.currentScale = d.vrScale], live,
                            d.vrScale, d.vrYOffset)
    IN  [t EXCEPT !.bodyClasses = t.bodyClasses \ {"ar-mode", "vr-mode", "url-forced-ar"}]

\* part_000: the schema defaults of defaultPosVR and defaultPosAR (hundredths)
defaultPosVR == Vec(0, 0, -500)
defaultPosAR == Vec(0, 0, -300)

\* part_000 ar-scale-adjuster.applyTransform: the base position is the
\* schema's default position of the mode
applyTransformAt(a, s, yOffset, isAR) ==
    LET basePosition == IF isAR THEN defaultPosAR ELSE defaultPosVR IN
    [a EXCEPT !.elScale = setScalar(s),
              !.elPosition = Vec(basePosition[1], basePosition[2] + yOffset, basePosition[3])]

\* part_000 ar-scale-adjuster.checkURLParameters
checkURLParametersAt(a, d, e) ==
    IF SearchGet(e.search, "ar") = "true" \/ SearchGet(e.search, "passthrough") = "true"
    THEN LET t == applyTransformAt(a, d.arScale, d.arYOffset, TRUE)
         IN  [t EXCEPT !.bodyClasses = t.bodyClasses \cup {"ar-mode", "url-forced-ar"}]
    ELSE a

\* part_000 ar-scale-adjuster.init on an element at position p
initAt(d, e, p) ==
    LET a0 == [elScale |-> DefaultScale, elPosition |-> p, currentScale |-> d.vrScale,
               originalPosition |-> p, checkDelayTimer |-> "null",
               timerPending |-> FALSE, bodyClasses |-> {}]
    IN  checkURLParametersAt(applyTransformAt(a0, d.vrScale, d.vrYOffset, FALSE), d, e)

\* part_000 ar-scale-adjuster.checkXRMode, run by the timer
checkXRModeAt(a, d, e, isPresenting, session) ==
    LET fired == [a EXCEPT !.timerPending = FALSE] IN
    IF isPresenting /\ session.mode # "none"
    THEN IF detectARMode(session, e).isAR
         THEN applyTransformAt(
                  [fired EXCEPT !.bodyClasses = (fired.bodyClasses \cup {"ar-mode"}) \ {"vr-mode"}],
                  d.arScale, d.arYOffset, TRUE)
         ELSE applyTransformAt(
                  [fired EXCEPT !.bodyClasses = (fired.bodyClasses \cup {"vr-mode"}) \ {"ar-mode"}],
                  d.vrScale, d.vrYOffset, FALSE)
    ELSE applyTransformAt(fired, d.vrScale, d.vrYOffset, FALSE)

\* part_000 ar-scale-adjuster.onExitXR
onExitXRAt(a, d) ==
    LET cleared == IF a.checkDelayTimer # "null"
                   THEN [a EXCEPT !.checkDelayTimer = "null", !.timerPending = FALSE]
                   ELSE a
        t == applyTransformAt(cleared, d.vrScale, d.vrYOffset, FALSE)
    IN  [t EXCEPT !.bodyClasses = t.bodyClasses \ {"ar-mode", "vr-mode", "url-forced-ar"}]

StoreAdjuster(a) ==
    /\ elScale' = a.elScale
    /\ elPosition' = a.elPosition
    /\ afCurrentScale' = a.currentScale
    /\ afOriginalPosition' = a.originalPosition
    /\ checkDelayTimer' = a.checkDelayTimer
    /\ timerPending' = a.timerPending
    /\ bodyClasses' = a.bodyClasses

AfInitWith(lives, configs, envs, positions) ==
    /\ livePosition \in lives
    /\ data \in configs
    /\ env \in envs
    /\ \E p \in positions :
         LET a == init(livePosition, data, env, p) IN
         /\ initPosition = p
         /\ elScale = a.elScale
         /\ elPosition = a.elPosition
         /\ afCurrentScale = a.currentScale
         /\ afOriginalPosition = a.originalPosition
         /\ checkDelayTimer = a.checkDelayTimer
         /\ timerPending = a.timerPending
         /\ bodyClasses = a.bodyClasses
    /\ inXR = FALSE
    /\ xrPresenting = FALSE
    /\ xrSession = NoSession
    /\ enters = 0
    /\ afLastOp = "init"
    /\ preEnter = [seen |-> FALSE, scale |-> ZeroVector, position |-> ZeroVector]

AfInit == AfInitWith(BOOLEAN, Configs, PageEnvs, ElementPositions)

\* the scene emits 'enter-vr': with an XR session presenting, or (no WebXR
\* device) with none
EnterVR ==
    /\ ~inXR
    /\ enters < MaxEnters
    /\ enters' = enters + 1
    /\ inXR' = TRUE
    /\ \E s \in PageSessions \cup {NoSession} :
         /\ xrSession' = s
         /\ xrPresenting' = (s # NoSession)
    /\ StoreAdjuster(onEnterXR(Adjuster))
    /\ preEnter' = [seen |-> TRUE, scale |-> elScale, position |-> elPosition]
    /\ afLastOp' = "enter-vr"
    /\ UNCHANGED <<env, data, livePosition, initPosition, ctlVars, detVars, zoomVars, simVars, dbgVars>>

\* the 500 ms timer fires
CheckXRMode ==
    /\ timerPending
    /\ StoreAdjuster(checkXRMode(Adjuster, livePosition, data, env, xrPresenting, xrSession))
    /\ afLastOp' = "checkXRMode"
    /\ UNCHANGED <<env, data, livePosition, initPosition, inXR, xrPresenting, xrSession, enters,
                   preEnter, ctlVars, detVars, zoomVars, simVars, dbgVars>>

\* the scene emits 'exit-vr'
ExitVR ==
    /\ inXR
    /\ inXR' = FALSE
    /\ xrPresenting' = FALSE
    /\ xrSession' = NoSession
    /\ StoreAdjuster(onExitXR(Adjuster, livePosition, data))
    /\ afLastOp' = "exit-vr"
    /\ UNCHANGED <<env, data, livePosition, initPosition, enters, preEnter, ctlVars, detVars, zoomVars, simVars, dbgVars>>

----------------------------------------------------------------------------
(* A-Frame vr-zoom (js/components.js on the solar-system element; js/main.js
   and part_003 on the scene) *)

PageZoomBuilds == {"components", "part_000"}
SceneZoomBuilds == {"main", "part_003"}

\* Math.min(Math.max(..., 0.1), 10)
zoomMin == SU \div 10
zoomMax == 10 * SU

\* Math.abs(y) > 0.01 of the event listeners, Math.abs(stickY) > 0.1 of the
\* gamepad poll (hundredths)
eventThreshold == 1
pollThreshold == 10

\* const scaleFactor = 1 - (y * 0.05), in units of 1/SU; NaN when y is NaN
\* or undefined
ScaleFactor(y) == IF y.t = "num" THEN Num(SU - 5 * y.v) ELSE NaN

\* x * factor for a factor f in units of 1/SU, rounded to the nearest unit
MulSU(x, f) == x * (f \div SU) + RoundDiv(x * (f % SU), SU)

\* Math.min(Math.max(x * factor, 0.1), 10): NaN when x or factor is NaN
ZoomComponent(x, factor) ==
    IF factor.t # "num" \/ x = NaNScalar THEN NaNScalar
    ELSE LET p == MulSU(x, factor.v)
             lo == IF p > zoomMin THEN p ELSE zoomMin
         IN  IF lo < zoomMax THEN lo ELSE zoomMax

\* faulty variant: updateScale without the clamp
updateScaleUnclamped(s, factor) ==
    IF factor.t # "num" THEN setScalar(NaNScalar)
    ELSE <<MulSU(s[1], factor.v), MulSU(s[2], factor.v), MulSU(s[3], factor.v)>>

\* vr-zoom.updateScale
updateScale(s, factor) ==
    <<ZoomComponent(s[1], factor), ZoomComponent(s[2], factor), ZoomComponent(s[3], factor)>>

\* faulty variant: the thumbstickmoved listener with the sign of Y reversed
thumbstickmovedReversed(b, vr, s, y, id) ==
    IF ~vr THEN s
    ELSE IF b \in PageZoomBuilds
    THEN (IF Truthy(y) /\ AbsGreater(y, eventThreshold)
          THEN updateScale(s, Num(SU + 5 * y.v)) ELSE s)
    ELSE (IF y # Num(0) /\ id = 1 THEN updateScale(s, ScaleFactor(y)) ELSE s)

\* the thumbstickmoved listener: the scale it leaves, for evt.detail.y = y
\* and evt.detail.controller.id = id
thumbstickmoved(b, vr, s, y, id) ==
    IF ~vr THEN s
    ELSE IF b \in PageZoomBuilds
    THEN (IF Truthy(y) /\ AbsGreater(y, eventThreshold)
          THEN updateScale(s, ScaleFactor(y)) ELSE s)
    ELSE (IF y # Num(0) /\ id = 1 THEN updateScale(s, ScaleFactor(y)) ELSE s)

\* the axismove listener, for evt.detail.axis = axis
axismove(b, vr, s, axis) ==
    IF ~vr THEN s
    ELSE IF b \in PageZoomBuilds
    THEN (IF Len(axis) > 1 /\ AbsGreater(At(axis, 1), eventThreshold)
          THEN updateScale(s, ScaleFactor(At(axis, 1))) ELSE s)
    ELSE (IF At(axis, 1) # Num(0) /\ Len(axis) > 1
          THEN updateScale(s, ScaleFactor(At(axis, 1))) ELSE s)

\* one gamepad of the poll: the right stick (axes[3]), then the left (axes[1])
PollGamepad(s, pad) ==
    IF ~pad.connected THEN s
    ELSE LET r == IF Len(pad.axes) > 3 /\ AbsGreater(At(pad.axes, 3), pollThreshold)
                  THEN updateScale(s, ScaleFactor(At(pad.axes, 3))) ELSE s
         IN  IF Len(pad.axes) > 1 /\ AbsGreater(At(pad.axes, 1), pollThreshold)
             THEN updateScale(r, ScaleFactor(At(pad.axes, 1))) ELSE r

RECURSIVE PollGamepads(_, _, _)
PollGamepads(s, pads, i) ==
    IF i > Len(pads) THEN s ELSE PollGamepads(PollGamepad(s, pads[i]), pads, i + 1)

\* faulty variant: the gamepad poll without the isVR test
gamepadPollAlways(vr, s, pads) == PollGamepads(s, pads, 1)

\* the setInterval callback polling navigator.getGamepads()
gamepadPoll(vr, s, pads) == IF vr THEN PollGamepads(s, pads, 1) ELSE s

\* inputs: thumbstick Y values (hundredths), axis arrays, gamepad lists
ZoomYs == { Num(0), Num(1), Num(2), Num(100), Num(-100), NaN, Undefined }
ZoomAxes == { <<Num(0), y>> : y \in ZoomYs } \cup { <<Num(50)>> }
Pad(axes) == [connected |-> TRUE, axes |-> axes]
NoPad == [connected |-> FALSE, axes |-> << >>]
ZoomGamepads ==
    { << >>, <<Pad(<<Num(0), Num(-100)>>)>>, <<Pad(<<Num(0), Num(15), Num(0), Num(100)>>)>>,
      <<NoPad, Pad(<<Num(0), NaN, Num(0), Num(5)>>)>> }

\* schema data of the page: the schema's defaults, arScale and vrScale at the
\* ends of [0.1, 10], and arScale and vrScale outside [0.1, 10]
ZoomConfigs ==
    { [arScale |-> SU \div 2, vrScale |-> SU, arYOffset |-> 100, vrYOffset |-> 0],
      [arScale |-> SU \div 10, vrScale |-> 10 * SU, arYOffset |-> 100, vrYOffset |-> 0],
      [arScale |-> SU \div 20, vrScale |-> 20 * SU, arYOffset |-> 100, vrYOffset |-> 0] }

\* the page's environments: a desktop browser, with and without ?ar=true
ZoomEnvs == { e \in PageEnvs : e.userAgent = "Mozilla Windows"
                                /\ e.search \in {NoSearch, <<Param("ar", "true")>>} }

\* the scale the vr-zoom build writes
ZoomTarget == IF zoomBuild \in PageZoomBuilds THEN elScale ELSE sceneScale

afRest == <<env, data, elPosition, afCurrentScale, afOriginalPosition, checkDelayTimer,
            timerPending, inXR, livePosition, initPosition, bodyClasses, xrPresenting, xrSession,
            enters, afLastOp, preEnter>>

SetZoomTarget(s) ==
    IF zoomBuild \in PageZoomBuilds
    THEN elScale' = s /\ UNCHANGED sceneScale
    ELSE sceneScale' = s /\ UNCHANGED elScale

ZoomInit(builds) ==
    /\ zoomBuild \in builds
    /\ isVR = FALSE
    /\ sceneScale = DefaultScale
    /\ zoomListensFirst \in (IF builds \subseteq PageZoomBuilds THEN BOOLEAN ELSE {FALSE})
    /\ zoomEvents = 0
    /\ zoomLastOp = "init"
    /\ zoomY = Num(0)
    /\ zoomPre = DefaultScale

\* a controller emits 'thumbstickmoved'
Thumbstickmoved ==
    /\ zoomEvents < MaxZoomEvents
    /\ \E y \in ZoomYs, id \in {0, 1} :
         /\ SetZoomTarget(thumbstickmoved(zoomBuild, isVR, ZoomTarget, y, id))
         /\ zoomY' = y
    /\ zoomPre' = ZoomTarget
    /\ zoomEvents' = zoomEvents + 1
    /\ zoomLastOp' = "thumbstickmoved"
    /\ UNCHANGED <<zoomBuild, isVR, zoomListensFirst, afRest, ctlVars, detVars, simVars, dbgVars>>

\* a controller emits 'axismove'
Axismove ==
    /\ zoomEvents < MaxZoomEvents
    /\ \E axis \in ZoomAxes :
         /\ SetZoomTarget(axismove(zoomBuild, isVR, ZoomTarget, axis))
         /\ zoomY' = IF Len(axis) > 1 THEN At(axis, 1) ELSE Num(0)
    /\ zoomPre' = ZoomTarget
    /\ zoomEvents' = zoomEvents + 1
    /\ zoomLastOp' = "axismove"
    /\ UNCHANGED <<zoomBuild, isVR, zoomListensFirst, afRest, ctlVars, detVars, simVars, dbgVars>>

\* the 100 ms gamepad poll of js/components.js
GamepadPoll ==
    /\ zoomBuild \in PageZoomBuilds
    /\ zoomEvents < MaxZoomEvents
    /\ \E pads \in ZoomGamepads :
         SetZoomTarget(gamepadPoll(isVR, ZoomTarget, pads))
    /\ zoomPre' = ZoomTarget
    /\ zoomEvents' = zoomEvents + 1
    /\ zoomLastOp' = "poll"
    /\ UNCHANGED <<zoomBuild, isVR, zoomListensFirst, zoomY, afRest, ctlVars, detVars, simVars, dbgVars>>

\* the scene of js/main.js / part_003 emits 'enter-vr'
SceneEnterVR ==
    /\ zoomBuild \in SceneZoomBuilds
    /\ ~isVR
    /\ isVR' = TRUE
    /\ zoomLastOp' = "enter-vr"
    /\ UNCHANGED <<zoomBuild, sceneScale, zoomListensFirst, zoomEvents, zoomY, zoomPre,
                   afVars, ctlVars, detVars, simVars, dbgVars>>

\* the scene of js/main.js / part_003 emits 'exit-vr'; part_003 resets the
\* scene scale
SceneExitVR ==
    /\ zoomBuild \in SceneZoomBuilds
    /\ isVR
    /\ isVR' = FALSE
    /\ sceneScale' = IF zoomBuild = "part_003" THEN setScalar(SU) ELSE sceneScale
    /\ zoomLastOp' = "exit-vr"
    /\ UNCHANGED <<zoomBuild, zoomListensFirst, zoomEvents, zoomY, zoomPre,
                   afVars, ctlVars, detVars, simVars, dbgVars>>

\* the page's scene emits 'enter-vr': vr-zoom sets isVR, ar-scale-adjuster
\* schedules its check
ZoomEnterVR ==
    /\ zoomBuild \in PageZoomBuilds
    /\ ~inXR
    /\ enters < MaxEnters
    /\ enters' = enters + 1
    /\ inXR' = TRUE
    /\ isVR' = TRUE
    /\ \E s \in PageSessions \cup {NoSession} :
         /\ xrSession' = s
         /\ xrPresenting' = (s # NoSession)
    /\ StoreAdjuster(onEnterXR(Adjuster))
    /\ preEnter' = [seen |-> TRUE, scale |-> elScale, position |-> elPosition]
    /\ afLastOp' = "enter-vr"
    /\ zoomLastOp' = "enter-vr"
    /\ UNCHANGED <<env, data, livePosition, initPosition, zoomBuild, sceneScale, zoomListensFirst,
                   zoomEvents, zoomY, zoomPre, ctlVars, detVars, simVars, dbgVars>>

\* onExitXR of the page's ar-scale-adjuster
AdjusterExit(a) ==
    IF zoomBuild = "part_000" THEN onExitXRAt(a, data) ELSE onExitXR(a, livePosition, data)

\* the page's scene emits 'exit-vr': vr-zoom clears isVR and sets the scale
\* to '1 1 1', ar-scale-adjuster runs onExitXR, in the order the two
\* listeners were registered
ZoomExitVR ==
    /\ zoomBuild \in PageZoomBuilds
    /\ inXR
    /\ inXR' = FALSE
    /\ isVR' = FALSE
    /\ xrPresenting' = FALSE
    /\ xrSession' = NoSession
    /\ IF zoomListensFirst
       THEN StoreAdjuster(AdjusterExit([Adjuster EXCEPT !.elScale = setScalar(SU)]))
       ELSE StoreAdjuster([AdjusterExit(Adjuster) EXCEPT !.elScale = setScalar(SU)])
    /\ afLastOp' = "exit-vr"
    /\ zoomLastOp' = "exit-vr"
    /\ UNCHANGED <<env, data, livePosition, initPosition, enters, preEnter, zoomBuild, sceneScale,
                   zoomListensFirst, zoomEvents, zoomY, zoomPre, ctlVars, detVars, simVars, dbgVars>>

\* the 500 ms timer of ar-scale-adjuster fires on the page
ZoomCheckXRMode == zoomBuild = "components" /\ CheckXRMode

\* the 500 ms timer of the part_000 ar-scale-adjuster fires
ZoomCheckXRModeAt ==
    /\ zoomBuild = "part_000"
    /\ timerPending
    /\ StoreAdjuster(checkXRModeAt(Adjuster, data, env, xrPresenting, xrSession))
    /\ afLastOp' = "checkXRMode"
    /\ UNCHANGED <<env, data, livePosition, initPosition, inXR, xrPresenting, xrSession, enters,
                   preEnter, ctlVars, detVars, zoomVars, simVars, dbgVars>>

----------------------------------------------------------------------------
(* Three.js simulation: CelestialBody and SolarSystem.render (js/controls.js,
   js/main.js) *)

\* Radii and distances are in hundredths, angles and angular speeds in units
\* of 1/SU radian.  A coordinate is a number (hundredths) or the product
\* Math.cos(angle) * distance / Math.sin(angle) * distance, kept as the
\* expression the code evaluates.
Coord(fn, angle, times) == [fn |-> fn, angle |-> angle, times |-> times]
Literal(n) == Coord("num", 0, n)
CosTimes(angle, distance) == IF distance = 0 THEN Literal(0) ELSE Coord("cos", angle, distance)
SinTimes(angle, distance) == IF distance = 0 THEN Literal(0) ELSE Coord("sin", angle, distance)

\* a new Mesh is at the origin
MeshPosition == <<Literal(0), Literal(0), Literal(0)>>

\* SUN of js/constants.js with the arguments createCelestialBodies adds:
\* distance 0, rotationSpeed 0.001, orbitSpeed 0
SunConfig ==
    [name |-> "Sun", radius |-> 400, distance |-> 0, rotationSpeed |-> 10, orbitSpeed |-> 0]

\* entries of a PLANETS array: Mercury of js/constants.js, a body at distance
\* 0 that has an orbit speed, and an entry with a negative radius
PlanetConfigs ==
    { [name |-> "Mercury", radius |-> 38, distance |-> 500, rotationSpeed |-> 100,
       orbitSpeed |-> 400],
      [name |-> "Centre", radius |-> 100, distance |-> 0, rotationSpeed |-> 200,
       orbitSpeed |-> 100],
      [name |-> "Negative", radius |-> 0 - 100, distance |-> 1000, rotationSpeed |-> 200,
       orbitSpeed |-> 100] }

\* values of Math.random() * Math.PI * 2: 0 and pi / 2
InitialAngles == {0, 15708}

\* milliseconds between two calls of the animation loop: 60 Hz and 30 Hz
FrameDeltas == {16, 33}

\* new CelestialBody(name, radius, distance, rotationSpeed, orbitSpeed, ...)
\* with Math.random() * Math.PI * 2 = angle; updates, angle0 and firstAdvance
\* are history
CelestialBody(cfg, angle) ==
    [name |-> cfg.name, radius |-> cfg.radius, distance |-> cfg.distance,
     rotationSpeed |-> cfg.rotationSpeed, orbitSpeed |-> cfg.orbitSpeed,
     angle |-> angle, rotationY |-> 0, position |-> MeshPosition,
     orbit |-> cfg.distance > 0,
     updates |-> 0, angle0 |-> angle, firstAdvance |-> 0]

\* the history fields of a body after an update that left it as b
Updated(old, b) ==
    [b EXCEPT !.updates = old.updates + 1,
              !.firstAdvance = IF old.updates = 0 THEN b.angle - old.angle
                               ELSE old.firstAdvance]

\* faulty variant: update() without the distance test
updateAlwaysOrbits(b) ==
    LET angle == b.angle + b.orbitSpeed IN
    Updated(b, [b EXCEPT !.rotationY = @ + b.rotationSpeed,
                         !.angle = angle,
                         !.position = <<CosTimes(angle, b.distance), @[2],
                                        SinTimes(angle, b.distance)>>])

\* CelestialBody.update
update(b) ==
    LET rotated == [b EXCEPT !.rotationY = @ + b.rotationSpeed]
        angle == b.angle + b.orbitSpeed
    IN  Updated(b, IF b.distance > 0
                   THEN [rotated EXCEPT !.angle = angle,
                                        !.position = <<CosTimes(angle, b.distance), @[2],
                                                       SinTimes(angle, b.distance)>>]
                   ELSE rotated)

\* faulty variant: render() updating the bodies before the controls
RenderOrderBodiesFirst == <<"sun", "planets", "controls", "draw">>

\* the statements of SolarSystem.render, in their order
RenderOrder == <<"controls", "sun", "planets", "draw">>

Phase == RenderOrder[pc]
Advance(p) == IF p = Len(RenderOrder) THEN 1 ELSE p + 1

\* between two frames
FrameBoundary == pc = 1

\* the solar system createCelestialBodies builds from a PLANETS array of
\* differently named entries
SimInit ==
    /\ sun \in { CelestialBody(SunConfig, a) : a \in InitialAngles }
    /\ planets \in { ps \in SeqsUpTo({ CelestialBody(c, a) : c \in PlanetConfigs,
                                                             a \in InitialAngles }, MaxPlanets) :
                        \A i, j \in DOMAIN ps : ps[i].name = ps[j].name => i = j }
    /\ pc = 1
    /\ next = 1
    /\ draws = 0
    /\ elapsed = 0
    /\ firstDelta = 0

\* session.inputSources of a rendered frame: no controller, or one
RenderInputs(b) == { << >> } \cup { <<src>> : src \in SourcesOf(b) }

\* render(): this.controls.update(), in a frame deltaTime after the last one;
\* an error thrown by it ends the callback
RenderControls ==
    /\ Phase = "controls"
    /\ ControlsUpdate(RenderInputs(build))
    /\ \E deltaTime \in FrameDeltas :
         /\ elapsed' = elapsed + deltaTime
         /\ firstDelta' = IF firstDelta = 0 THEN deltaTime ELSE firstDelta
    /\ pc' = IF frameThrew' THEN 1 ELSE Advance(pc)
    /\ UNCHANGED <<sun, planets, next, draws, afVars, detVars, zoomVars, dbgVars>>

\* render(): this.sun.update()
RenderSun ==
    /\ Phase = "sun"
    /\ sun' = update(sun)
    /\ pc' = Advance(pc)
    /\ UNCHANGED <<planets, next, draws, elapsed, firstDelta, ctlVars, afVars, detVars, zoomVars, dbgVars>>

\* render(): one callback of this.planets.forEach(planet => planet.update())
RenderPlanet ==
    /\ Phase = "planets"
    /\ next <= Len(planets)
    /\ planets' = [planets EXCEPT ![next] = update(@)]
    /\ next' = next + 1
    /\ UNCHANGED <<sun, pc, draws, elapsed, firstDelta, ctlVars, afVars, detVars, zoomVars, dbgVars>>

\* render(): planets.forEach returns
RenderPlanetsEnd ==
    /\ Phase = "planets"
    /\ next > Len(planets)
    /\ next' = 1
    /\ pc' = Advance(pc)
    /\ UNCHANGED <<sun, planets, draws, elapsed, firstDelta, ctlVars, afVars, detVars, zoomVars, dbgVars>>

\* render(): this.renderer.render(this.scene, this.camera)
RenderDraw ==
    /\ Phase = "draw"
    /\ draws' = draws + 1
    /\ pc' = Advance(pc)
    /\ UNCHANGED <<sun, planets, next, elapsed, firstDelta, ctlVars, afVars, detVars, zoomVars, dbgVars>>

\* the renderer dispatches a session event between two frames, in the order
\* of a session's life; their delivery in any order is examined under
\* SpecControls
RenderSessionStart == FrameBoundary /\ ~presenting /\ SessionStart
RenderSessionEnd == FrameBoundary /\ presenting /\ SessionEnd

----------------------------------------------------------------------------
(* A-Frame debug system: debug-manager and vr-debug (part_000) *)

\* if (this.debugMessages.length > 15) shift(); debugMessages.slice(-10)
bufferLimit == 15
panelLines == 10

\* the last n elements of a sequence: Array.prototype.slice(-n)
SliceLast(q, n) == IF Len(q) <= n THEN q ELSE SubSeq(q, Len(q) - n + 1, Len(q))

\* a debug-manager component instance before its init; a message is the
\* number of its arrival at the instance, arrived counts them (history)
NewManager ==
    [state |-> "new", owner |-> FALSE, gamepadInterval |-> FALSE, displayTimer |-> FALSE,
     debugEntity |-> "null", panel |-> << >>, debugMessages |-> << >>, isVR |-> FALSE,
     arrived |-> 0]

NoDesktopDebug == [present |-> FALSE, lines |-> << >>]

\* the manager instances and the document: what the handlers read and write
World == [managers |-> managers, global |-> VR_DEBUG_MANAGER, desktop |-> desktopDebug,
          listeners |-> debugListeners]

\* faulty variant: addDebugMessage showing the whole buffer on the panel
addDebugMessageWholeBuffer(w, e) ==
    LET m == w.managers[e]
        pushed == Append(m.debugMessages, m.arrived + 1)
        kept == IF Len(pushed) > bufferLimit THEN Tail(pushed) ELSE pushed
    IN  [w EXCEPT !.managers[e].debugMessages = kept,
                  !.managers[e].arrived = m.arrived + 1,
                  !.managers[e].panel = IF m.debugEntity # "null" THEN kept ELSE m.panel,
                  !.desktop = IF w.desktop.present
                              THEN [present |-> TRUE, lines |-> kept] ELSE w.desktop]

\* debug-manager.addDebugMessage on instance e
addDebugMessage(w, e) ==
    LET m == w.managers[e]
        pushed == Append(m.debugMessages, m.arrived + 1)
        kept == IF Len(pushed) > bufferLimit THEN Tail(pushed) ELSE pushed
    IN  [w EXCEPT !.managers[e].debugMessages = kept,
                  !.managers[e].arrived = m.arrived + 1,
                  !.managers[e].panel = IF m.debugEntity # "null"
                                        THEN SliceLast(kept, panelLines) ELSE m.panel,
                  !.desktop = IF w.desktop.present
                              THEN [present |-> TRUE, lines |-> kept] ELSE w.desktop]

\* k calls of addDebugMessage on instance e
RECURSIVE addDebugMessages(_, _, _)
addDebugMessages(w, e, k) ==
    IF k = 0 THEN w ELSE addDebugMessages(addDebugMessage(w, e), e, k - 1)

\* debug-manager.init of instance e: returns at once when a manager is
\* registered; otherwise registers itself, creates the desktop console, adds a
\* message, starts the display timer, the scene listeners and the interval
managerInit(w, e) ==
    IF w.global # 0
    THEN [w EXCEPT !.managers[e].state = "init"]
    ELSE addDebugMessage(
             [w EXCEPT !.global = e,
                       !.managers[e].state = "init",
                       !.managers[e].owner = TRUE,
                       !.managers[e].displayTimer = TRUE,
                       !.managers[e].gamepadInterval = TRUE,
                       !.listeners = Append(w.listeners, e),
                       !.desktop = [present |-> TRUE, lines |-> << >>]], e)

\* debug-manager.remove of instance e
managerRemove(w, e) ==
    [w EXCEPT !.managers[e].state = "removed",
              !.managers[e].gamepadInterval = FALSE,
              !.managers[e].debugEntity = IF @ = "null" THEN "null" ELSE "detached",
              !.desktop = NoDesktopDebug,
              !.global = 0]

\* debug-manager.createVRDebugDisplay of instance e, run by its 1000 ms timer
createVRDebugDisplay(w, e) ==
    addDebugMessage([w EXCEPT !.managers[e].displayTimer = FALSE,
                              !.managers[e].debugEntity = "attached"], e)

\* the scene's enter-vr (vr = TRUE) or exit-vr listeners of the instances
\* from position i of the listener list
RECURSIVE sceneListeners(_, _, _)
sceneListeners(w, vr, i) ==
    IF i > Len(w.listeners) THEN w
    ELSE LET e == w.listeners[i] IN
         sceneListeners(addDebugMessage([w EXCEPT !.managers[e].isVR = vr], e), vr, i + 1)

\* the sticks of a gamepad the 200 ms poll reports
SticksReported(pad) ==
    IF ~pad.connected THEN 0
    ELSE (IF Len(pad.axes) > 3 /\ AbsGreater(At(pad.axes, 3), pollThreshold) THEN 1 ELSE 0)
         + (IF Len(pad.axes) > 1 /\ AbsGreater(At(pad.axes, 1), pollThreshold) THEN 1 ELSE 0)

RECURSIVE AllSticksReported(_, _)
AllSticksReported(pads, i) ==
    IF i > Len(pads) THEN 0 ELSE SticksReported(pads[i]) + AllSticksReported(pads, i + 1)

\* the setInterval callback of setupGamepadMonitoring of instance e
gamepadMonitor(w, e, pads) ==
    IF ~w.managers[e].isVR THEN w ELSE addDebugMessages(w, e, AllSticksReported(pads, 1))

\* navigator.getGamepads(): no gamepad, or two with both sticks pushed
DebugGamepads ==
    LET pushed == Pad(<<Num(0), Num(-100), Num(0), Num(100)>>)
    IN  { << >>, <<pushed, NoPad, pushed>> }

\* vr-debug after init: registerWithManager is scheduled
\* (timer: the parity of the number of timers it has set)
VrDebugInit == [pending |-> TRUE, timer |-> 0, registered |-> FALSE]

StoreWorld(w) ==
    /\ managers' = w.managers
    /\ VR_DEBUG_MANAGER' = w.global
    /\ desktopDebug' = w.desktop
    /\ debugListeners' = w.listeners

\* the vr-zoom of part_001 after init: debugMessages not yet assigned, the
\* createDebugDisplay timer scheduled; threw tells whether the last handler
\* ended in an uncaught error
ZoomDebugInit ==
    [debugMessages |-> [defined |-> FALSE, length |-> 0], timer |-> TRUE, isVR |-> FALSE,
     scale |-> DefaultScale, threw |-> FALSE, handled |-> 0, lastOp |-> "init"]

ZoomDebugIdle == [ZoomDebugInit EXCEPT !.timer = FALSE, !.lastOp = "idle"]

\* if (this.debugMessages.length > 10) shift()
zoomBufferLimit == 10

\* part_001 vr-zoom.addDebugMessage: this.debugMessages.push(...) raises a
\* TypeError while debugMessages is undefined; a statement after an error of
\* the same handler does not run
zoomAddDebugMessage(z) ==
    IF z.threw THEN z
    ELSE IF ~z.debugMessages.defined THEN [z EXCEPT !.threw = TRUE]
    ELSE [z EXCEPT !.debugMessages.length =
                       IF @ + 1 > zoomBufferLimit THEN zoomBufferLimit ELSE @ + 1]

\* part_001 vr-zoom.createDebugDisplay, run by the 1000 ms timer of init
zoomCreateDebugDisplay(z) ==
    zoomAddDebugMessage([z EXCEPT !.timer = FALSE, !.threw = FALSE,
                                  !.debugMessages = [defined |-> TRUE, length |-> 2]])

\* part_001 vr-zoom.updateScale with the solar-system element present
zoomUpdateScale(z, factor) ==
    LET m == zoomAddDebugMessage(z) IN
    IF m.threw THEN m ELSE [m EXCEPT !.scale = updateScale(z.scale, factor)]

\* part_001: the enter-vr listener
zoomOnEnterVR(z) == zoomAddDebugMessage([z EXCEPT !.threw = FALSE, !.isVR = TRUE])

\* part_001: the exit-vr listener
zoomOnExitVR(z) ==
    LET m == zoomAddDebugMessage([z EXCEPT !.threw = FALSE, !.isVR = FALSE]) IN
    IF m.threw THEN m ELSE [m EXCEPT !.scale = setScalar(SU)]

\* part_001: the thumbstickmoved listener, for evt.detail.y = y
zoomThumbstickmoved(z, y) ==
    LET m == zoomAddDebugMessage([z EXCEPT !.threw = FALSE]) IN
    IF m.threw \/ ~m.isVR THEN m
    ELSE IF Truthy(y) /\ AbsGreater(y, eventThreshold)
    THEN zoomUpdateScale(m, ScaleFactor(y)) ELSE m

\* part_001: the axismove listener, for evt.detail.axis = axis
zoomAxismove(z, axis) ==
    LET m == zoomAddDebugMessage([z EXCEPT !.threw = FALSE]) IN
    IF m.threw THEN m
    ELSE IF ~m.isVR THEN zoomAddDebugMessage(m)
    ELSE IF Len(axis) > 1 /\ AbsGreater(At(axis, 1), eventThreshold)
    THEN zoomUpdateScale(zoomAddDebugMessage(m), ScaleFactor(At(axis, 1))) ELSE m

\* inputs of the part_001 listeners
ZoomDebugYs == { Num(0), Num(100), Num(-100) }
ZoomDebugAxes == { <<Num(0), y>> : y \in ZoomDebugYs } \cup { <<Num(50)>> }

Handled(z, op) == [z EXCEPT !.handled = @ + 1, !.lastOp = op]

ZoomDebugRest == <<managers, VR_DEBUG_MANAGER, desktopDebug, sceneVR, debugListeners,
                   debugEvents, vrDebug>>

\* part_001: the 1000 ms timer of init fires
ZoomDisplayTimer ==
    /\ zoomDebug.timer
    /\ zoomDebug' = [zoomCreateDebugDisplay(zoomDebug) EXCEPT !.lastOp = "createDebugDisplay"]
    /\ UNCHANGED <<ZoomDebugRest, ctlVars, afVars, detVars, zoomVars, simVars>>

\* part_001: the scene emits 'enter-vr'
ZoomDebugEnterVR ==
    /\ zoomDebug.handled < MaxDebugEvents
    /\ ~zoomDebug.isVR
    /\ zoomDebug' = Handled(zoomOnEnterVR(zoomDebug), "enter-vr")
    /\ UNCHANGED <<ZoomDebugRest, ctlVars, afVars, detVars, zoomVars, simVars>>

\* part_001: the scene emits 'exit-vr'
ZoomDebugExitVR ==
    /\ zoomDebug.handled < MaxDebugEvents
    /\ zoomDebug.isVR
    /\ zoomDebug' = Handled(zoomOnExitVR(zoomDebug), "exit-vr")
    /\ UNCHANGED <<ZoomDebugRest, ctlVars, afVars, detVars, zoomVars, simVars>>

\* part_001: a controller emits 'thumbstickmoved'
ZoomDebugThumbstickmoved ==
    /\ zoomDebug.handled < MaxDebugEvents
    /\ \E y \in ZoomDebugYs :
         zoomDebug' = Handled(zoomThumbstickmoved(zoomDebug, y), "thumbstickmoved")
    /\ UNCHANGED <<ZoomDebugRest, ctlVars, afVars, detVars, zoomVars, simVars>>

\* part_001: a controller emits 'axismove'
ZoomDebugAxismove ==
    /\ zoomDebug.handled < MaxDebugEvents
    /\ \E axis \in ZoomDebugAxes :
         zoomDebug' = Handled(zoomAxismove(zoomDebug, axis), "axismove")
    /\ UNCHANGED <<ZoomDebugRest, ctlVars, afVars, detVars, zoomVars, simVars>>

DebugInit ==
    /\ managers = [e \in 1..MaxManagers |-> NewManager]
    /\ VR_DEBUG_MANAGER = 0
    /\ desktopDebug = NoDesktopDebug
    /\ sceneVR = FALSE
    /\ debugListeners = << >>
    /\ debugEvents = 0
    /\ vrDebug = VrDebugInit
    /\ zoomDebug = ZoomDebugIdle

otherVars == <<ctlVars, afVars, detVars, zoomVars, simVars>>

\* A-Frame initialises the debug-manager component of an entity
ManagerInit(e) ==
    /\ managers[e].state = "new"
    /\ StoreWorld(managerInit(World, e))
    /\ UNCHANGED <<sceneVR, debugEvents, vrDebug, zoomDebug, otherVars>>

\* A-Frame removes the debug-manager component of an entity
ManagerRemove(e) ==
    /\ managers[e].state = "init"
    /\ StoreWorld(managerRemove(World, e))
    /\ UNCHANGED <<sceneVR, debugEvents, vrDebug, zoomDebug, otherVars>>

\* the 1000 ms timer of instance e fires
ManagerDisplayTimer(e) ==
    /\ managers[e].displayTimer
    /\ StoreWorld(createVRDebugDisplay(World, e))
    /\ UNCHANGED <<sceneVR, debugEvents, vrDebug, zoomDebug, otherVars>>

\* the scene emits 'enter-vr' or 'exit-vr'
DebugSceneEvent ==
    /\ debugEvents < MaxDebugEvents
    /\ debugEvents' = debugEvents + 1
    /\ sceneVR' = ~sceneVR
    /\ StoreWorld(sceneListeners(World, ~sceneVR, 1))
    /\ UNCHANGED <<vrDebug, zoomDebug, otherVars>>

\* the 200 ms interval of instance e fires
GamepadMonitor(e) ==
    /\ managers[e].gamepadInterval
    /\ debugEvents < MaxDebugEvents
    /\ debugEvents' = debugEvents + 1
    /\ \E pads \in DebugGamepads : StoreWorld(gamepadMonitor(World, e, pads))
    /\ UNCHANGED <<sceneVR, vrDebug, zoomDebug, otherVars>>

\* the timer of vr-debug fires: registerWithManager registers, or schedules
\* itself again in 500 ms
RegisterWithManager ==
    /\ vrDebug.pending
    /\ IF VR_DEBUG_MANAGER # 0
       THEN /\ StoreWorld(addDebugMessage(World, VR_DEBUG_MANAGER))
            /\ vrDebug' = [vrDebug EXCEPT !.pending = FALSE, !.registered = TRUE]
       ELSE /\ vrDebug' = [vrDebug EXCEPT !.timer = 1 - @]
            /\ UNCHANGED <<managers, VR_DEBUG_MANAGER, desktopDebug, debugListeners>>
    /\ UNCHANGED <<sceneVR, debugEvents, zoomDebug, otherVars>>

----------------------------------------------------------------------------
(* Idle values of the parts a specification does not run *)

DebugIdle ==
    /\ managers = << >>
    /\ VR_DEBUG_MANAGER = 0
    /\ desktopDebug = NoDesktopDebug
    /\ sceneVR = FALSE
    /\ debugListeners = << >>
    /\ debugEvents = 0
    /\ vrDebug = [pending |-> FALSE, timer |-> 0, registered |-> FALSE]
    /\ zoomDebug = ZoomDebugIdle

SimIdle ==
    /\ sun = CelestialBody(SunConfig, 0)
    /\ planets = << >>
    /\ pc = 1
    /\ next = 1
    /\ draws = 0
    /\ elapsed = 0
    /\ firstDelta = 0

ZoomIdle == ZoomInit({"none"})

AfIdleButEnv ==
    /\ livePosition = FALSE
    /\ initPosition = ZeroVector
    /\ data = [arScale |-> SU \div 2, vrScale |-> SU, arYOffset |-> 100, vrYOffset |-> 0]
    /\ elScale = DefaultScale
    /\ elPosition = ZeroVector
    /\ afCurrentScale = SU
    /\ afOriginalPosition = ZeroVector
    /\ checkDelayTimer = "null"
    /\ timerPending = FALSE
    /\ bodyClasses = {}
    /\ inXR = FALSE
    /\ xrPresenting = FALSE
    /\ xrSession = NoSession
    /\ enters = 0
    /\ afLastOp = "idle"
    /\ preEnter = [seen |-> FALSE, scale |-> ZeroVector, position |-> ZeroVector]

AfIdle ==
    /\ AfIdleButEnv
    /\ env = [userAgent |-> "Mozilla Windows", search |-> NoSearch,
              arModeElement |-> FALSE, hasGetEnvironmentBlendMode |-> FALSE]

CtlIdle == CtlInit({"none"})

DetIdle ==
    /\ detSession = [mode |-> "undefined", environmentBlendMode |-> "undefined",
                     enabledFeatures |-> [defined |-> FALSE, list |-> {}]]
    /\ detResult = [isAR |-> FALSE, method |-> -1]

----------------------------------------------------------------------------
(* detectARMode as a specification: any session in any environment *)

DetInit ==
    /\ detSession \in Sessions
    /\ env \in Envs
    /\ detResult = [isAR |-> FALSE, method |-> -1]
    /\ AfIdleButEnv
    /\ CtlIdle
    /\ ZoomIdle
    /\ SimIdle
    /\ DebugIdle

Detect ==
    /\ detResult.method = -1
    /\ detResult' = detectARMode(detSession, env)
    /\ UNCHANGED <<detSession, ctlVars, afVars, zoomVars, simVars, dbgVars>>

----------------------------------------------------------------------------
(* Specifications *)

\* the Controls of js/controls.js, part_008, part_006 and part_007
ControlsInit ==
    CtlInit(JoystickBuilds \cup ToggleBuilds) /\ AfIdle /\ DetIdle /\ ZoomIdle /\ SimIdle /\ DebugIdle
ControlsNext == SessionStart \/ SessionEnd \/ Update
SpecControls == ControlsInit /\ [][ControlsNext]_vars

\* the trigger-scaling Controls of part_005 and part_004
TriggerInit == CtlInit(TriggerBuilds) /\ AfIdle /\ DetIdle /\ ZoomIdle /\ SimIdle /\ DebugIdle
\* here the renderer delivers the session events in the order of a session's
\* life; their delivery in any order is examined under SpecControls
TriggerSessionStart == ~presenting /\ SessionStart
TriggerSessionEnd == presenting /\ SessionEnd
TriggerNext ==
    TriggerSessionStart \/ TriggerSessionEnd \/ Update \/ SelectStart(1) \/ SelectStart(2)
SpecTrigger == TriggerInit /\ [][TriggerNext]_vars

\* the A-Frame page with the ar-scale-adjuster
PageInit == AfInit /\ CtlIdle /\ DetIdle /\ ZoomIdle /\ SimIdle /\ DebugIdle
PageNext == EnterVR \/ CheckXRMode \/ ExitVR
SpecPage == PageInit /\ [][PageNext]_vars

\* setTimeout(this.checkXRMode, 500): a scheduled check that is not cleared fires
SpecPageTimers == SpecPage /\ WF_vars(CheckXRMode)

\* detectARMode on every session and environment
SpecDetect == DetInit /\ [][Detect]_vars

\* the A-Frame page of js/components.js: ar-scale-adjuster and vr-zoom on the
\* solar-system element
ZoomPageInit ==
    /\ AfInitWith(BOOLEAN, ZoomConfigs, ZoomEnvs, {ZeroVector})
    /\ ZoomInit({"components"}) /\ CtlIdle /\ DetIdle /\ SimIdle /\ DebugIdle
ZoomPageNext ==
    ZoomEnterVR \/ ZoomCheckXRMode \/ ZoomExitVR \/ Thumbstickmoved \/ Axismove \/ GamepadPoll
SpecZoomPage == ZoomPageInit /\ [][ZoomPageNext]_vars

\* the page of part_000: its vr-zoom and its ar-scale-adjuster on the
\* solar-system element
ZoomPageAtInit ==
    /\ livePosition = FALSE
    /\ data \in ZoomConfigs
    /\ env \in ZoomEnvs
    /\ initPosition = ZeroVector
    /\ LET a == initAt(data, env, initPosition) IN
         /\ elScale = a.elScale
         /\ elPosition = a.elPosition
         /\ afCurrentScale = a.currentScale
         /\ afOriginalPosition = a.originalPosition
         /\ checkDelayTimer = a.checkDelayTimer
         /\ timerPending = a.timerPending
         /\ bodyClasses = a.bodyClasses
    /\ inXR = FALSE
    /\ xrPresenting = FALSE
    /\ xrSession = NoSession
    /\ enters = 0
    /\ afLastOp = "init"
    /\ preEnter = [seen |-> FALSE, scale |-> ZeroVector, position |-> ZeroVector]
    /\ ZoomInit({"part_000"}) /\ CtlIdle /\ DetIdle /\ SimIdle /\ DebugIdle
ZoomPageAtNext ==
    ZoomEnterVR \/ ZoomCheckXRModeAt \/ ZoomExitVR \/ Thumbstickmoved \/ Axismove \/ GamepadPoll
SpecZoomPageAt == ZoomPageAtInit /\ [][ZoomPageAtNext]_vars

\* the vr-zoom of js/main.js and part_003, on the scene
ZoomSceneInit == ZoomInit(SceneZoomBuilds) /\ AfIdle /\ CtlIdle /\ DetIdle /\ SimIdle /\ DebugIdle
ZoomSceneNext == SceneEnterVR \/ SceneExitVR \/ Thumbstickmoved \/ Axismove
SpecZoomScene == ZoomSceneInit /\ [][ZoomSceneNext]_vars

\* the Three.js application of js/main.js: the animation loop calling
\* render(), and the renderer's session events
SimulationInit ==
    SimInit /\ CtlInit({"controls"}) /\ AfIdle /\ DetIdle /\ ZoomIdle /\ DebugIdle
SimulationNext ==
    \/ RenderControls \/ RenderSun \/ RenderPlanet \/ RenderPlanetsEnd \/ RenderDraw
    \/ RenderSessionStart \/ RenderSessionEnd
SpecSimulation == SimulationInit /\ [][SimulationNext]_vars

\* the same render loop driving the trigger-toggle Controls (part_006, part_007)
SimulationToggleInit ==
    SimInit /\ CtlInit(ToggleBuilds) /\ AfIdle /\ DetIdle /\ ZoomIdle /\ DebugIdle
SpecSimulationToggle == SimulationToggleInit /\ [][SimulationNext]_vars

\* the debug system of part_000: debug-manager entities initialised and
\* removed, their timers, the scene's events, and one vr-debug component
DebugSystemInit ==
    DebugInit /\ CtlIdle /\ AfIdle /\ DetIdle /\ ZoomIdle /\ SimIdle
DebugSystemNext ==
    \/ \E e \in 1..MaxManagers :
          ManagerInit(e) \/ ManagerRemove(e) \/ ManagerDisplayTimer(e) \/ GamepadMonitor(e)
    \/ DebugSceneEvent
    \/ RegisterWithManager
SpecDebug == DebugSystemInit /\ [][DebugSystemNext]_vars

\* the vr-zoom of part_001: its display timer, the scene's events and the
\* controller's events, in any order
ZoomDebugSystemInit ==
    /\ zoomDebug = ZoomDebugInit
    /\ managers = << >>
    /\ VR_DEBUG_MANAGER = 0
    /\ desktopDebug = NoDesktopDebug
    /\ sceneVR = FALSE
    /\ debugListeners = << >>
    /\ debugEvents = 0
    /\ vrDebug = [pending |-> FALSE, timer |-> 0, registered |-> FALSE]
    /\ CtlIdle /\ AfIdle /\ DetIdle /\ ZoomIdle /\ SimIdle
ZoomDebugNext ==
    \/ ZoomDisplayTimer \/ ZoomDebugEnterVR \/ ZoomDebugExitVR
    \/ ZoomDebugThumbstickmoved \/ ZoomDebugAxismove
SpecZoomDebug == ZoomDebugSystemInit /\ [][ZoomDebugNext]_vars

\* the same, with every timer that is set firing eventually
SpecDebugTimers ==
    /\ SpecDebug
    /\ WF_vars(RegisterWithManager)
    /\ \A e \in 1..MaxManagers : WF_vars(ManagerDisplayTimer(e))

----------------------------------------------------------------------------
(* Claims on the Three.js Controls *)

\* C1: after a sessionend, the root scale and position are exactly the
\* values they had immediately before the latest sessionstart, whatever
\* joystick updates and mode toggles happened in between
C1_SessionRoundTrip ==
    (lastOp = "sessionend" /\ preStart.seen) =>
        (scale = preStart.scale /\ position = preStart.position)

\* C1 witness: part_006 after a session in which the mode was toggled to AR
\* and a joystick moved, back at the scale and position it was entered from
C1_Witness ==
    /\ build = "part_006" /\ lastOp = "sessionend" /\ preStart.seen
    /\ isARMode /\ frameDeflected
    /\ scale = DefaultScale /\ position = ZeroVector

\* C2: in js/controls.js the root scale stays within [minScale, maxScale]
\* in every reachable state
C2_ScaleWithinLimits ==
    build = "controls" => \A k \in 1..3 : minScale <= scale[k] /\ scale[k] <= maxScale

\* C3: the three components of the root scale are equal in every reachable
\* state
C3_Isotropic == scale[1] = scale[2] /\ scale[2] = scale[3]

\* C3 witness: a frame of js/controls.js whose joystick input has driven the
\* scale down to minScale
C3_Witness ==
    /\ build = "controls" /\ lastOp = "frame" /\ presenting /\ ~frameQuiet
    /\ scale = setScalar(minScale)

\* C4: in the joystick Controls a frame in which every source's selected
\* joystick Y has magnitude below the deadzone leaves the root scale unchanged
C4_DeadzoneNoOp ==
    [][(build \in JoystickBuilds /\ lastOp' = "frame" /\ frameQuiet') => scale' = scale]_vars

\* C4 witness: a presenting frame of a joystick build with a deflected stick,
\* every selected Y inside the deadzone
C4_Witness ==
    /\ build \in JoystickBuilds /\ lastOp = "frame" /\ presenting
    /\ frameQuiet /\ frameDeflected

\* C7: in part_006 a sessionstart that follows a sessionend applies the VR
\* profile (scale 0.2, position (0,0,0))
C7_SessionStartAppliesVR ==
    [][(build = "part_006" /\ lastOp = "sessionend" /\ lastOp' = "sessionstart") =>
          (scale' = setScalar(SU \div 5) /\ position' = Vec(0, 0, 0))]_vars

\* C8: a frame of a toggle build in which the mode was toggled leaves
\* originalScale and originalPosition unchanged, flips the mode (one toggle)
\* and leaves the root at the profile of the new mode
C8_ToggleKeepsSnapshot ==
    [][(build \in ToggleBuilds /\ lastOp' = "frame" /\ frameToggles' > 0) =>
          /\ originalScale' = originalScale
          /\ originalPosition' = originalPosition
          /\ (frameToggles' = 1 => isARMode' = ~isARMode)
          /\ position' = ProfilePosition(build, isARMode')
          /\ ((frameQuiet' \/ build = "part_007") => scale' = ProfileScale(build, isARMode'))
      ]_vars

\* C8 witness: part_006 toggled to AR once in a session entered from the
\* desktop state, the snapshot still the desktop state
C8_Witness ==
    /\ build = "part_006" /\ lastOp = "frame" /\ frameToggles = 1 /\ isARMode
    /\ scale = setScalar(SU \div 50) /\ position = Vec(0, -30, -50)
    /\ originalScale = DefaultScale /\ originalPosition = ZeroVector

\* C12: in js/controls.js, part_008 and part_006, a frame whose joystick
\* axis values are all NaN or undefined (and that toggles no mode) leaves the
\* root scale unchanged, and no step makes a scale component NaN
C12_InvalidAxisIsNoInput ==
    [][/\ \A k \in 1..3 : scale'[k] # NaNScalar
       /\ (/\ build \in JoystickBuilds \cup {"part_006"}
           /\ lastOp' = "frame" /\ frameInvalid' /\ frameToggles' = 0) => scale' = scale
      ]_vars

\* C12 witness: a presenting frame of part_006 whose only joystick values are
\* NaN or undefined, the scale still the VR profile's
C12_Witness ==
    /\ build = "part_006" /\ lastOp = "frame" /\ presenting
    /\ frameInvalid /\ frameToggles = 0
    /\ scale = setScalar(SU \div 5)

\* C19: the root scale of the Three.js Controls is strictly positive in
\* every reachable state, the session events delivered in any order
C19_ScalePositive == \A k \in 1..3 : scale[k] > 0

----------------------------------------------------------------------------
(* Claims on detectARMode *)

\* the session carries none of the three session signals: its mode is not
\* 'immersive-ar', its blend mode is none of additive, alpha-blend, screen,
\* and it enables none of hit-test, plane-detection, anchors, camera-access
NoSessionSignal ==
    /\ detSession.mode # "immersive-ar"
    /\ detSession.environmentBlendMode \notin {"additive", "alpha-blend", "screen"}
    /\ detSession.enabledFeatures.list
           \cap {"hit-test", "plane-detection", "anchors", "camera-access"} = {}

\* the page is on a Quest browser and shows a passthrough indicator
QuestPassthroughIndicated ==
    /\ env.userAgent \in {"Mozilla Quest 3", "Mozilla OculusBrowser"}
    /\ \/ SearchIncludes(env.search, "passthrough", "true")
       \/ SearchIncludes(env.search, "ar", "true")
       \/ env.arModeElement
       \/ env.hasGetEnvironmentBlendMode

\* C5 as stated: a session with none of the three session signals is
\* classified VR, whatever else holds
C5_NoSignalIsVR ==
    (detResult.method # -1 /\ NoSessionSignal) => ~detResult.isAR

\* C5: a session with none of the three session signals is classified VR
\* whenever the page is not on a Quest browser showing a passthrough
\* indicator; on such a page it is classified AR
C5_NoSignalIsVRUnlessQuest ==
    (detResult.method # -1 /\ NoSessionSignal) =>
        (detResult.isAR <=> QuestPassthroughIndicated)

\* C5 witness: an immersive-vr, opaque, local-floor session on a Quest
\* browser without indicators, classified VR by the final return
C5_Witness ==
    /\ detResult.method = 0 /\ ~detResult.isAR
    /\ detSession.mode = "immersive-vr"
    /\ detSession.environmentBlendMode = "opaque"
    /\ detSession.enabledFeatures = [defined |-> TRUE, list |-> {"local-floor"}]
    /\ env.userAgent = "Mozilla Quest 3"
    /\ ~QuestPassthroughIndicated

\* C6: a session whose mode is 'immersive-ar' is classified AR by the mode
\* check; one of another or no mode whose environmentBlendMode is additive,
\* alpha-blend or screen is classified AR by the blend-mode check
C6_ModeOrBlendIsAR ==
    detResult.method # -1 =>
        /\ detSession.mode = "immersive-ar" =>
               (detResult.isAR /\ detResult.method = 1)
        /\ (/\ detSession.mode # "immersive-ar"
            /\ detSession.environmentBlendMode \in {"additive", "alpha-blend", "screen"}) =>
               (detResult.isAR /\ detResult.method = 2)

\* C6 witness: a session with no mode string and blend mode alpha-blend, on
\* a desktop browser, classified AR
C6_Witness ==
    /\ detResult.isAR /\ detResult.method = 2
    /\ detSession.mode = "undefined"
    /\ detSession.environmentBlendMode = "alpha-blend"
    /\ detSession.enabledFeatures.list = {}
    /\ env.userAgent = "Mozilla Windows"

\* C26: a frame of part_006 toggles the mode once for every controller index
\* whose trigger is pressed and was not pressed the last time a frame read
\* it, and for no other index; the mode flips exactly when that number is odd
C26_OneTogglePerPress ==
    [][(build = "part_006" /\ lastOp' = "frame") =>
          /\ frameToggles' = frameTriggers'.presses
          /\ (isARMode' # isARMode) = (frameTriggers'.presses % 2 = 1)
      ]_vars

\* C26 witness: triggers held over two frames and toggled by the first frame
\* only.  Both triggers are down as last read and the second frame toggled
\* nothing; its gamepads all have invalid joystick axes, which among the
\* sources with buttons leaves the fully pressed one and one with a released
\* trigger, and a released trigger would have been recorded as not down
C26_Witness ==
    /\ build = "part_006" /\ lastOp = "frame" /\ frames = 2 /\ presenting
    /\ frameInvalid
    /\ frameTriggers.held[0] /\ frameTriggers.held[1] /\ frameTriggers.presses = 0
    /\ frameToggles = 0 /\ ~isARMode

\* C27: in part_007 a presenting frame whose input source has a gamepad with
\* trigger button that toggles the mode and a deflected stick on at least two axes
\* ends controls.update()
\* without an error, and render() goes on to the body updates
C27_ProcessVRInputCompletes ==
    [][(/\ build = "part_007" /\ presenting /\ Phase = "controls"
        /\ lastOp' = "frame"
        /\ frameToggles' > 0 /\ frameDeflected')
          => (~frameThrew' /\ Phase' = "sun")
      ]_vars

----------------------------------------------------------------------------
(* Claims on the A-Frame ar-scale-adjuster *)

\* C9: after an exit-vr, the element's scale and position are the values
\* they had immediately before the enter-vr of that cycle
C9_EnterExitRestores ==
    (afLastOp = "exit-vr" /\ preEnter.seen) =>
        (elScale = preEnter.scale /\ elPosition = preEnter.position)

\* the AR profile on the element and the document body
ARProfile == elScale = setScalar(data.arScale) /\ "ar-mode" \in bodyClasses

\* C23: once exit-vr has been handled no check is pending, the element has the
\* VR/desktop scale without the AR class, and scale and position stay as
\* exit-vr left them until the next enter-vr; the AR profile is only ever
\* applied by a scheduled check that finds an AR session presenting
C23_ExitCancelsCheck ==
    [][ /\ (afLastOp = "exit-vr") =>
              /\ ~timerPending /\ checkDelayTimer = "null"
              /\ elScale = setScalar(data.vrScale)
              /\ ~ARProfile
              /\ afLastOp' = "enter-vr"
              /\ elScale' = elScale /\ elPosition' = elPosition
              /\ ~ARProfile'
        /\ (~ARProfile /\ ARProfile') =>
              /\ afLastOp' = "checkXRMode"
              /\ timerPending /\ inXR /\ xrPresenting
              /\ detectARMode(xrSession, env).isAR ]_vars

\* exit-vr handled while the first check was still pending: with the live
\* position vector every applyTransform leaves its trace in the position, and
\* here only init and exit-vr have run
C23_Witness ==
    /\ afLastOp = "exit-vr" /\ enters = 1 /\ ~timerPending
    /\ livePosition /\ data.vrYOffset = 10 /\ env.search = NoSearch
    /\ elPosition[2] \in {20, 170}

\* the position applyTransform is meant to give: the position at init raised
\* by yOffset
OffsetFromInit(yOffset) == Vec(initPosition[1], initPosition[2] + yOffset, initPosition[3])

\* C24: an enter-vr with a presenting session that detectARMode classifies as
\* AR leads, unless exit-vr comes first, to the element at scale arScale and at
\* the AR position offset with body class ar-mode and without vr-mode
C24_ARCheckEventuallyApplies ==
    (afLastOp = "enter-vr" /\ xrPresenting /\ detectARMode(xrSession, env).isAR)
        ~> \/ afLastOp = "exit-vr"
           \/ /\ elScale = setScalar(data.arScale)
              /\ elPosition = OffsetFromInit(data.arYOffset)
              /\ "ar-mode" \in bodyClasses
              /\ "vr-mode" \notin bodyClasses

\* C25: the element's position always has the x and z captured at init and a
\* y equal to the init y plus vrYOffset or plus arYOffset
C25_OffsetsNeverAccumulate ==
    elPosition \in {OffsetFromInit(data.vrYOffset), OffsetFromInit(data.arYOffset)}

----------------------------------------------------------------------------
(* Claims on the trigger-scaling Controls *)

\* C10: in part_005 and part_004 the root scale stays within
\* [minScale, maxScale] = [0.01, 2.0] after any number of selectstart presses
C10_TriggerScaleWithinRange ==
    (build \in TriggerBuilds /\ lastOp = "selectstart") =>
        (minScale <= scale[1] /\ scale[1] <= maxScale)

----------------------------------------------------------------------------
(* Claims on the A-Frame vr-zoom *)

\* a scale component inside [0.1, 10]
InZoomRange(x) == zoomMin <= x /\ x <= zoomMax

\* the zoom inputs: the two controller events and the gamepad poll
ZoomInputOps == {"thumbstickmoved", "axismove", "poll"}

\* the step delivers one of the zoom inputs ops
ZoomInput(ops) == zoomEvents' = zoomEvents + 1 /\ zoomLastOp' \in ops

\* C11: on the A-Frame page, with arScale and vrScale configured inside
\* [0.1, 10], every component of the solar-system element's scale is inside
\* [0.1, 10] in every state reachable by enter-vr, exit-vr, the delayed
\* XR-mode check, thumbstickmoved, axismove and the gamepad poll.
C11_ElementScaleWithinRange ==
    (InZoomRange(data.arScale) /\ InZoomRange(data.vrScale))
        => \A k \in 1..3 : InZoomRange(elScale[k])

\* a forward push in VR arrived with the element at the maximum and was
\* clamped there
C11_Witness ==
    /\ InZoomRange(data.arScale) /\ InZoomRange(data.vrScale)
    /\ zoomLastOp = "thumbstickmoved" /\ isVR /\ zoomY = Num(-100)
    /\ zoomPre = setScalar(zoomMax) /\ elScale = setScalar(zoomMax)

\* C13: in the vr-zoom of js/main.js (and part_003), a thumbstickmoved or
\* axismove event received in VR whose Y value is NaN leaves the scene scale
\* unchanged, and no component of the scene scale becomes NaN.
C13_NaNLeavesSceneScale ==
    [][(/\ zoomBuild \in SceneZoomBuilds /\ isVR
        /\ ZoomInput({"thumbstickmoved", "axismove"}) /\ zoomY' = NaN)
       => (sceneScale' = sceneScale /\ \A k \in 1..3 : sceneScale'[k] # NaNScalar)
      ]_vars

\* C14: while no XR session is presenting, no thumbstickmoved or axismove
\* event and no gamepad poll changes the scale of the solar-system element.
C14_NoZoomOutsideXR ==
    [][(ZoomInput(ZoomInputOps) /\ ~xrPresenting) => elScale' = elScale]_vars

\* the thumbstick pushed forward (y < -0.01), pulled backward (y > 0.01)
PushedForward(y) == y.t = "num" /\ y.v < 0 - eventThreshold
PulledBackward(y) == y.t = "num" /\ y.v > eventThreshold

\* the effect the README gives to a thumbstick event with Y value y that
\* takes the scale from s to t: forward never lowers a component and raises
\* it below the maximum, backward never raises it and lowers it above the
\* minimum
ThumbstickZooms(y, s, t) ==
    /\ PushedForward(y) =>
           \A k \in 1..3 : t[k] >= s[k] /\ (s[k] < zoomMax => t[k] > s[k])
    /\ PulledBackward(y) =>
           \A k \in 1..3 : t[k] =< s[k] /\ (s[k] > zoomMin => t[k] < s[k])

----------------------------------------------------------------------------
(* Claims on the Three.js simulation *)

\* the bodies of the simulation: the sun and the planets
Bodies == {sun} \cup { planets[i] : i \in DOMAIN planets }

\* C15: within every rendered frame the controls update comes first, then
\* the update of the sun and of every planet, then the draw: the sun has been
\* updated at most as often as the controls, every planet at most as often
\* as the sun, and the renderer has drawn at most as often as any body was
\* updated.
C15_ControlsThenBodiesThenDraw ==
    /\ sun.updates <= frames
    /\ \A i \in DOMAIN planets : planets[i].updates <= sun.updates
    /\ \A b \in Bodies : draws <= b.updates

\* two frames were rendered in a session with two planets
C15_Witness ==
    /\ draws = 2 /\ frames = 2 /\ presenting /\ Len(planets) = 2
    /\ \A b \in Bodies : b.updates = 2

\* C16: a body with orbit distance 0 keeps its orbit angle and its position
\* under any number of update() calls; its self-rotation angle advances by
\* rotationSpeed with each call.
C16_CentreBodyOnlyRotates ==
    \A b \in Bodies :
        b.distance = 0 => /\ b.angle = b.angle0
                          /\ b.position = MeshPosition
                          /\ b.rotationY = b.updates * b.rotationSpeed

\* the sun and a planet at distance 0 that has an orbit speed were updated
\* twice and have turned about their axes
C16_Witness ==
    /\ sun.updates = 2 /\ sun.rotationY > 0
    /\ \E i \in DOMAIN planets :
          /\ planets[i].distance = 0 /\ planets[i].orbitSpeed > 0
          /\ planets[i].updates = 2 /\ planets[i].rotationY > 0

\* C17: update advances a body's orbit angle in proportion to the frame's
\* deltaTime: between two frames the advance of every orbiting body since
\* construction is to the elapsed time as the advance of its first update is
\* to the first frame's deltaTime.
C17_AngleProportionalToTime ==
    FrameBoundary =>
        \A b \in Bodies :
            (b.distance > 0 /\ b.updates > 0)
                => (b.angle - b.angle0) * firstDelta = b.firstAdvance * elapsed

\* C18: a body constructed from a configuration with a negative radius is
\* not in the simulation: no such body is among the sun and the planets that
\* render() updates.
C18_NegativeRadiusNeverUpdated ==
    \A b \in Bodies : b.radius < 0 => b.updates = 0

\* C29: in part_000, once both exit-vr listeners have run the solar-system
\* element's scale is the configured vrScale, in either listener order
C29_ExitScaleIsVrScale ==
    (zoomBuild = "part_000" /\ afLastOp = "exit-vr") => elScale = setScalar(data.vrScale)

----------------------------------------------------------------------------
(* Claims on the vr-zoom of part_001 *)

\* C28: no handler of the part_001 vr-zoom (enter-vr, exit-vr, controller
\* events, the display timer) ends in an error raised by addDebugMessage on an
\* unassigned debugMessages
C28_NoMessageBeforeBuffer == ~zoomDebug.threw

----------------------------------------------------------------------------
(* Claims on the A-Frame debug system *)

ManagerIds == DOMAIN managers

\* the messages numbered n - k + 1 .. n, for k = min(n, limit): the most
\* recent min(n, limit) of n messages, in arrival order
MostRecent(n, limit) ==
    LET k == IF n < limit THEN n ELSE limit IN [i \in 1..k |-> n - k + i]

\* C21: at most one debug-manager instance owns a running gamepad interval,
\* and window.VR_DEBUG_MANAGER is every instance that registered itself and
\* has not been removed.
C21_SingleActiveManager ==
    /\ Cardinality({ e \in ManagerIds : managers[e].gamepadInterval }) <= 1
    /\ \A e \in ManagerIds :
          (managers[e].owner /\ managers[e].state = "init") => VR_DEBUG_MANAGER = e

\* C22: after n addDebugMessage calls on a debug manager its buffer holds
\* the most recent min(n, 15) messages in arrival order, and its VR debug
\* panel, once created, shows the most recent min(n, 10).
C22_PanelShowsLatestTen ==
    \A e \in ManagerIds :
        managers[e].owner =>
            /\ Len(managers[e].debugMessages) <= bufferLimit
            /\ managers[e].debugMessages = MostRecent(managers[e].arrived, bufferLimit)
            /\ managers[e].debugEntity # "null" =>
                   managers[e].panel = MostRecent(managers[e].arrived, panelLines)

\* a manager with a panel has received more messages than its buffer holds
C22_Witness ==
    \E e \in ManagerIds :
        /\ managers[e].debugEntity = "attached"
        /\ managers[e].arrived > bufferLimit + 1
        /\ Len(managers[e].panel) = panelLines
        /\ managers[e].panel[1] = managers[e].arrived - panelLines + 1

\* C30: the vr-debug registration retry terminates: eventually no
\* registerWithManager timer is pending.
C30_RetryTerminates == <>(~vrDebug.pending)

====
